---- MODULE Spec2Model ----
(***************************************************************************)
(* The OCR worker's asynchronous POST /ocr pipeline (src/unnamed/part_002) *)
(* as a state machine: one job from the inbound request to the end of the  *)
(* handler.  Every await of the handler is one step; the external          *)
(* collaborators (storage download, pdftotext, pdftoppm, the Gemini model, *)
(* Tesseract, the callback endpoint) answer nondeterministically.          *)
(*                                                                         *)
(* Texts are sequences of character tokens:                                *)
(*   "x"  a Latin letter        "ar"  a letter of the Arabic blocks        *)
(*   " "  a blank               "nl"  a line feed                          *)
(*   "@" "%" "#"  themselves    "FFFD" the replacement character           *)
(*   "ctl" a control character of [\u0000-\u0008\u000B\u000C\u000E-\u001F]*)
(*   "del" a control character outside that class (U+007F .. U+009F)       *)
(*                                                                         *)
(* Operations of the job on its own scratch directory (mkdir, readFile of  *)
(* a page image that existsSync has just seen, rm) are taken to succeed.   *)
(*                                                                         *)
(* The specifications:                                                     *)
(*   Spec      the asynchronous POST /ocr job of src/unnamed/part_002      *)
(*   SpecFn    tryPdfToText, looksCorrupted and pdfToImages of part_002,   *)
(*             each applied on its own to inputs from bounded sets         *)
(*   SpecSync  the synchronous POST /ocr job of src/unnamed/part_003       *)
(*   SpecProcess  the POST /process job of src/unnamed/part_000            *)
(*   SpecScratch  the scratch directories of part_002, several requests    *)
(*             in flight                                                   *)
(*   SpecNoReply  Spec when Gemini may leave a call unanswered             *)
(*   SpecWorker  the POST /ocr job of part_003's last variant and its      *)
(*             shared Tesseract worker, several requests in flight         *)
(***************************************************************************)
EXTENDS Integers, Sequences, FiniteSets, TLC

VARIABLES
    env,        \* process configuration read from process.env at start-up
    pc,         \* position of the /ocr handler ("crashed": the module threw while loading)
    req,        \* the accepted request body ({documentId, bucket, objectPath, maxPages})
    res,        \* HTTP responses written to the inbound caller, in order
    dir,        \* scratch directory: "none" | "exists" | "removed"
    directText, \* value returned by tryPdfToText
    imgs,       \* page images returned by pdfToImages (their page numbers)
    idx,        \* position of the page loop in imgs
    attempt,    \* geminiOCR's loop variable for the current page
    waitSec,    \* the wait geminiOCR is sleeping on
    t,          \* the page loop's t
    fullText,   \* the page loop's accumulator
    err,        \* message of the exception travelling to the outer catch
    outcomes,   \* payloads handed to callback(), in order
    posts,      \* bodies actually POSTed to the callback URL, in order
    calls,      \* how often the handler called each of its helpers
    cur,        \* the page in progress: what the engines were asked and gave
    pageLog,    \* the finished pages: which engine's text each contributed
    probe,      \* a helper applied on its own: its name, its argument, what it returned
    tesseractWorker, \* part_003's module variable: 0 for null, else the worker's number
    workers,    \* how many Tesseract workers createWorker() has made so far
    jobs        \* the requests in flight together: each one's position and locals

vars == <<env, pc, req, res, dir, directText, imgs, idx, attempt, waitSec, t,
          fullText, err, outcomes, posts, calls, cur, pageLog, probe,
          tesseractWorker, workers, jobs>>

----------------------------------------------------------------------------
(* Bounds of the model *)

MaxTextLen == 2        \* longest raw text a collaborator returns
MaxPagesCeil == 2      \* the process ceiling MAX_PDF_PAGES of the runs explored
MaxUnitLen == 4        \* longest text enumerated when a helper is applied on its own
MaxBlock == 8          \* longest block of one symbol inside a long sample
MaxDocPages == 10      \* most pages of a document handed to pdfToImages on its own
NumJobs == 2           \* requests in flight together
MaxJobPages == 2       \* most page images of one of them

(* Program constants *)

maxAttempts == 3
SampleLen == 800
RatioPct == 3
RunAt == 8
RunPctHash == 5
BackoffSec == 20
RetryAfterPad == 2
DirectMinLen == 200    \* src/unnamed/part_003: shortest text layer the synchronous handler takes
GeminiMinLen == 10     \* src/unnamed/part_003: a Gemini page text must be longer than this
ProcessBackoffMs == 2000    \* part_000 geminiOCR: delay = 2000 * 2^attempt
ProcessRetryPadMs == 1000   \* part_000 geminiOCR: added to the provider's delay

----------------------------------------------------------------------------
(* Values *)

Null == <<"null">>                 \* JavaScript null / undefined for a text
NoErr == "none"
Undefined == "undefined"

Truthy(s) == s # Null /\ s # <<>>  \* JavaScript truthiness of a string or null

EngineChars == {"x", " ", "@"}
PdfChars == {"x", " ", "@", "ar"}

TextsOver(chars, n) == UNION {[1..k -> chars] : k \in 0..n}

RetryAfterSecs == {5}              \* provider-supplied "retry after Ns" values tried
NoRetryAfter == <<>>               \* the error message carries no "retry after"

Min(a, b) == IF a < b THEN a ELSE b
Max(a, b) == IF a > b THEN a ELSE b

----------------------------------------------------------------------------
(* String functions *)

IsSpace(c) == c \in {" ", "nl"}

\* String.prototype.trim
trim(s) ==
    LET keep == {i \in 1..Len(s) : ~IsSpace(s[i])}
    IN  IF keep = {} THEN <<>>
        ELSE LET lo == CHOOSE i \in keep : \A j \in keep : i <= j
                 hi == CHOOSE i \in keep : \A j \in keep : j <= i
             IN  SubSeq(s, lo, hi)

\* text.replace(/\s+/g, " ").length
normalizedLen(s) ==
    Cardinality({i \in 1..Len(s) :
        \/ ~IsSpace(s[i])
        \/ IsSpace(s[i]) /\ (i = 1 \/ ~IsSpace(s[i-1]))})

\* String.prototype.slice(0, n); a negative n counts from the end
slice(s, n) ==
    IF n >= 0 THEN SubSeq(s, 1, Min(Len(s), n))
    ELSE SubSeq(s, 1, Max(Len(s) + n, 0))

clamp(n, lo, hi) == Min(hi, Max(lo, n))

hasArabic(text) == \E i \in 1..Len(text) : text[i] = "ar"

\* a run of at least n copies of c
HasRun(s, c, n) ==
    \E i \in 1..Len(s) : i + n - 1 <= Len(s) /\ \A j \in i..(i + n - 1) : s[j] = c

\* Mutant of looksCorrupted: the ratio test is >= 3 %
looksCorrupted_atLeast(text) ==
    IF ~Truthy(text) THEN TRUE
    ELSE LET sample == slice(text, SampleLen)
             bad  == Cardinality({i \in 1..Len(sample) : sample[i] \in {"FFFD", "%", "#", "@"}})
             ctrl == Cardinality({i \in 1..Len(sample) : sample[i] = "ctl"})
         IN  IF trim(sample) = <<>> THEN TRUE
             ELSE IF (bad + ctrl) * 100 >= RatioPct * Max(1, Len(sample)) THEN TRUE
             ELSE IF HasRun(sample, "@", RunAt) \/ HasRun(sample, "%", RunPctHash)
                     \/ HasRun(sample, "#", RunPctHash) THEN TRUE
             ELSE FALSE

looksCorrupted(text) ==
    IF ~Truthy(text) THEN TRUE
    ELSE LET sample == slice(text, SampleLen)
             bad  == Cardinality({i \in 1..Len(sample) : sample[i] \in {"FFFD", "%", "#", "@"}})
             ctrl == Cardinality({i \in 1..Len(sample) : sample[i] = "ctl"})
         IN  IF trim(sample) = <<>> THEN TRUE
             ELSE IF (bad + ctrl) * 100 > RatioPct * Max(1, Len(sample)) THEN TRUE
             ELSE IF HasRun(sample, "@", RunAt) \/ HasRun(sample, "%", RunPctHash)
                     \/ HasRun(sample, "#", RunPctHash) THEN TRUE
             ELSE FALSE

----------------------------------------------------------------------------
(* Pure parts of the handlers *)

\* Mutant of AcceptPdfText: the stdout is neither trimmed nor inspected
AcceptPdfText_untrimmed(stdout) ==
    IF Len(stdout) < env.MIN_PDFTEXT_LEN THEN Null
    ELSE IF env.FORCE_OCR THEN Null
    ELSE stdout

\* Mutant of AcceptPdfText: the minimum is compared with the raw length of stdout
AcceptPdfText_rawLength(stdout) ==
    LET text == trim(stdout)
    IN  IF Len(stdout) < env.MIN_PDFTEXT_LEN THEN Null
        ELSE IF env.FORCE_OCR THEN Null
        ELSE IF looksCorrupted(text) THEN Null
        ELSE IF hasArabic(text) /\ env.FORCE_OCR_FOR_AR THEN Null
        ELSE text

\* Mutant of AcceptPdfText: FORCE_OCR is not looked at
AcceptPdfText_noForce(stdout) ==
    LET text == trim(stdout)
    IN  IF normalizedLen(text) < env.MIN_PDFTEXT_LEN THEN Null
        ELSE IF looksCorrupted(text) THEN Null
        ELSE IF hasArabic(text) /\ env.FORCE_OCR_FOR_AR THEN Null
        ELSE text

\* tryPdfToText after pdftotext exited 0 with this stdout
AcceptPdfText(stdout) ==
    LET text == trim(stdout)
    IN  IF normalizedLen(text) < env.MIN_PDFTEXT_LEN THEN Null
        ELSE IF env.FORCE_OCR THEN Null
        ELSE IF looksCorrupted(text) THEN Null
        ELSE IF hasArabic(text) /\ env.FORCE_OCR_FOR_AR THEN Null
        ELSE text

\* Mutant of AcceptEngineText: the text is not passed to looksCorrupted
AcceptEngineText_noDetector(raw) ==
    LET s == trim(raw)
    IN  IF s = <<>> THEN Null ELSE s

\* what geminiOCR / tesseractOCR return for the engine's raw text
AcceptEngineText(raw) ==
    LET s == trim(raw)
    IN  IF s = <<>> THEN Null
        ELSE IF looksCorrupted(s) THEN Null
        ELSE s

\* Mutants of ShouldRetry: one attempt too few, one too many, and a retry of
\* every error
ShouldRetry_offByOne(isRateLimit, n) == isRateLimit /\ n < maxAttempts - 1

ShouldRetry_inclusive(isRateLimit, n) == isRateLimit /\ n <= maxAttempts

ShouldRetry_anyError(isRateLimit, n) == n < maxAttempts

\* geminiOCR's catch: isRateLimit && attempt < maxAttempts
ShouldRetry(isRateLimit, n) == isRateLimit /\ n < maxAttempts

\* Mutant of WaitSeconds: the provider's retry-after is ignored
WaitSeconds_backoffOnly(retryAfter, n) == BackoffSec * n

\* geminiOCR's catch: the seconds to sleep before the next attempt
WaitSeconds(retryAfter, n) ==
    IF retryAfter # NoRetryAfter THEN retryAfter[1] + RetryAfterPad
    ELSE BackoffSec * n

\* Mutant of Accumulate: a page without text empties the accumulator
Accumulate_reset(acc, v) == IF Truthy(v) THEN acc \o <<"nl", "nl">> \o v ELSE <<>>

\* the page loop's if (t) fullText += "\n\n" + t
Accumulate(acc, v) == IF Truthy(v) THEN acc \o <<"nl", "nl">> \o v ELSE acc

\* pdfToImages: the last page asked of pdftoppm
LastPage(pages) == clamp(Min(pages, env.MAX_PDF_PAGES), 1, env.MAX_PDF_PAGES)

\* Number(maxPages || MAX_PDF_PAGES)
RequestedPages(maxPages) ==
    IF maxPages = 0 THEN env.MAX_PDF_PAGES ELSE maxPages

\* Mutant of Ascending: the files are listed from the last page down
RECURSIVE Ascending_descending(_)
Ascending_descending(S) ==
    IF S = {} THEN <<>>
    ELSE LET m == CHOOSE i \in S : \A j \in S : i >= j
         IN  <<m>> \o Ascending_descending(S \ {m})

\* the page numbers i in 1..max whose file exists, ascending
RECURSIVE Ascending(_)
Ascending(S) ==
    IF S = {} THEN <<>>
    ELSE LET m == CHOOSE i \in S : \A j \in S : i <= j
         IN  <<m>> \o Ascending(S \ {m})

\* Mutant of SafePayload: the flag is computed from the text already cut
SafePayload_flagAfterCut(payload) ==
    IF payload.text # Null
    THEN [payload EXCEPT !.text = slice(payload.text, env.MAX_CALLBACK_TEXT_CHARS),
                         !.truncated = Len(slice(payload.text, env.MAX_CALLBACK_TEXT_CHARS))
                                          > env.MAX_CALLBACK_TEXT_CHARS]
    ELSE payload

\* callback: the body that goes on the wire
SafePayload(payload) ==
    IF payload.text # Null
    THEN [payload EXCEPT !.text = slice(payload.text, env.MAX_CALLBACK_TEXT_CHARS),
                         !.truncated = Len(payload.text) > env.MAX_CALLBACK_TEXT_CHARS]
    ELSE payload

\* payload fields a JavaScript object lacks hold "none" / NullPages / Null here
NullPages == <<>>                  \* pages: null; a page count n is <<n>>

SuccessPayload(documentId, engine, pages, text) ==
    [ok |-> TRUE, documentId |-> documentId, engine |-> engine, pages |-> pages,
     text |-> text, error |-> NoErr, truncated |-> FALSE]

FailurePayload(documentId, msg) ==
    [ok |-> FALSE, documentId |-> documentId, engine |-> "none", pages |-> NullPages,
     text |-> Null, error |-> msg, truncated |-> FALSE]

NoCalls == [download |-> 0, tryPdfToText |-> 0, pdfToImages |-> 0,
            geminiOCR |-> 0, tesseractOCR |-> 0]

\* cur: remote is the outcome of each generateContent attempt so far
\* ("text", "corrupted", "rateLimit", "error"), waits the sleeps taken, retryAfter the
\* provider's hint in the error being waited on, remoteText / localText what
\* geminiOCR / tesseractOCR returned
NewPage(p) == [page |-> p, remote |-> <<>>, waits |-> 0, retryAfter |-> NoRetryAfter,
               remoteText |-> Null, localCalled |-> FALSE, localText |-> Null]

NoPage == NewPage(0)

----------------------------------------------------------------------------
(* Initial state: the module has been loaded, no request has arrived *)

\* must(name, v): throws while the module loads when v is falsy.  TRUE when
\* it returns.
must(v) == v # ""

\* the guards at the top of the module; SUPABASE_URL, SUPABASE_SERVICE_ROLE_KEY
\* and OCR_WORKER_SECRET are set in every configuration explored
Started(e) == must(e.GEMINI_API_KEY)

\* no helper has been applied on its own
NoProbe == [fn |-> "none", arg |-> <<>>, ret |-> <<>>]

\* no request is in flight beside the one of pc, and no worker exists
NoJobs ==
    /\ tesseractWorker = 0
    /\ workers = 0
    /\ jobs = <<>>

\* the handler's variables before a request has arrived
NoJob ==
    /\ req = [documentId |-> Undefined, maxPages |-> 0]
    /\ res = <<>>
    /\ dir = "none"
    /\ directText = Null
    /\ imgs = <<>>
    /\ idx = 0
    /\ attempt = 0
    /\ waitSec = 0
    /\ t = Null
    /\ fullText = <<>>
    /\ err = NoErr
    /\ outcomes = <<>>
    /\ posts = <<>>
    /\ calls = NoCalls
    /\ cur = NoPage
    /\ pageLog = <<>>

Init ==
    /\ env \in [GEMINI_API_KEY : {"", "key"},
                OCR_CALLBACK_URL : {"", "url"},
                FORCE_OCR : BOOLEAN,
                FORCE_OCR_FOR_AR : BOOLEAN,
                MIN_PDFTEXT_LEN : {MaxTextLen},
                MAX_PDF_PAGES : {MaxPagesCeil},
                MAX_CALLBACK_TEXT_CHARS : {1, MaxTextLen + 1}]
    /\ pc = IF Started(env) THEN "idle" ELSE "crashed"
    /\ probe = NoProbe
    /\ NoJob
    /\ NoJobs

----------------------------------------------------------------------------
(* Actions *)

\* app.post("/ocr") up to its first await
Receive ==
    /\ pc = "idle"
    /\ \E secretOk \in BOOLEAN, documentId \in {Undefined, "doc"},
          bucket \in {Undefined, "bucket"},
          objectPath \in {Undefined, "file.pdf", "file.png"},
          maxPages \in (-1)..(MaxPagesCeil + 1) :
          IF ~secretOk
          THEN /\ res' = Append(res, [status |-> 401, ok |-> FALSE, body |-> "Unauthorized"])
               /\ pc' = "done"
               /\ UNCHANGED <<req, dir>>
          ELSE IF documentId = Undefined \/ bucket = Undefined \/ objectPath = Undefined
          THEN /\ res' = Append(res, [status |-> 400, ok |-> FALSE, body |-> "Missing fields"])
               /\ pc' = "done"
               /\ UNCHANGED <<req, dir>>
          ELSE IF objectPath # "file.pdf"
          THEN /\ res' = Append(res, [status |-> 400, ok |-> FALSE,
                                       body |-> "Only PDF files supported"])
               /\ pc' = "done"
               /\ UNCHANGED <<req, dir>>
          ELSE /\ res' = Append(res, [status |-> 200, ok |-> TRUE, body |-> "Processing started"])
               /\ req' = [documentId |-> documentId, maxPages |-> maxPages]
               /\ dir' = "exists"
               /\ pc' = "download"
    /\ UNCHANGED <<tesseractWorker, workers, jobs, probe, env, directText, imgs, idx, attempt, waitSec, t, fullText, err,
                   outcomes, posts, calls, cur, pageLog>>

\* Mutant of Download: a failed download is tried once more
Download_retry ==
    /\ pc = "download"
    /\ calls' = [calls EXCEPT !.download = @ + 1]
    /\ \E found \in BOOLEAN :
          IF found
          THEN pc' = "pdftotext" /\ UNCHANGED err
          ELSE IF calls.download = 0
          THEN pc' = "download" /\ UNCHANGED err
          ELSE pc' = "cleanup" /\ err' = "download failed"
    /\ UNCHANGED <<tesseractWorker, workers, jobs, probe, env, req, res, dir, directText, imgs, idx, attempt, waitSec, t,
                   fullText, outcomes, posts, cur, pageLog>>

\* await download(bucket, objectPath, pdf)
Download ==
    /\ pc = "download"
    /\ calls' = [calls EXCEPT !.download = @ + 1]
    /\ \E found \in BOOLEAN :
          IF found
          THEN pc' = "pdftotext" /\ UNCHANGED err
          ELSE pc' = "cleanup" /\ err' = "download failed"
    /\ UNCHANGED <<tesseractWorker, workers, jobs, probe, env, req, res, dir, directText, imgs, idx, attempt, waitSec, t,
                   fullText, outcomes, posts, cur, pageLog>>

\* Mutant of PdfToText: the return after the direct-text callback is missing
PdfToText_noReturn ==
    /\ pc = "pdftotext"
    /\ calls' = [calls EXCEPT !.tryPdfToText = @ + 1]
    /\ \E exit0 \in BOOLEAN, stdout \in TextsOver(PdfChars, MaxTextLen) :
          /\ exit0 \/ stdout = <<>>
          /\ directText' = IF exit0 THEN AcceptPdfText(stdout) ELSE Null
    /\ outcomes' = IF Truthy(directText')
                   THEN Append(outcomes, SuccessPayload(req.documentId, "pdftotext",
                                                        NullPages, directText'))
                   ELSE outcomes
    /\ pc' = "pdftoppm"
    /\ UNCHANGED <<tesseractWorker, workers, jobs, probe, env, req, res, dir, imgs, idx, attempt, waitSec, t, fullText, err,
                   posts, cur, pageLog>>

\* await tryPdfToText(pdf), then the handler's if (directText)
PdfToText ==
    /\ pc = "pdftotext"
    /\ calls' = [calls EXCEPT !.tryPdfToText = @ + 1]
    /\ \E exit0 \in BOOLEAN, stdout \in TextsOver(PdfChars, MaxTextLen) :
          /\ exit0 \/ stdout = <<>>
          /\ directText' = IF exit0 THEN AcceptPdfText(stdout) ELSE Null
    /\ IF Truthy(directText')
       THEN /\ outcomes' = Append(outcomes,
                  SuccessPayload(req.documentId, "pdftotext", NullPages, directText'))
            /\ pc' = "callbackOk"
       ELSE /\ pc' = "pdftoppm"
            /\ UNCHANGED outcomes
    /\ UNCHANGED <<tesseractWorker, workers, jobs, probe, env, req, res, dir, imgs, idx, attempt, waitSec, t, fullText, err,
                   posts, cur, pageLog>>

\* await pdfToImages(pdf, dir, Number(maxPages || MAX_PDF_PAGES)), then the
\* page loop up to the first page's call of geminiOCR and its first attempt
PdfToImages ==
    /\ pc = "pdftoppm"
    /\ LET max == LastPage(RequestedPages(req.maxPages))
       IN  \E exit0 \in BOOLEAN, files \in SUBSET (1..max) :
              /\ exit0 \/ files = {}
              /\ IF ~exit0
                 THEN /\ err' = "pdftoppm failed"
                      /\ pc' = "cleanup"
                      /\ calls' = [calls EXCEPT !.pdfToImages = @ + 1]
                      /\ UNCHANGED <<imgs, idx, attempt, cur>>
                 ELSE IF files = {}
                 THEN /\ err' = "No images generated"
                      /\ pc' = "cleanup"
                      /\ calls' = [calls EXCEPT !.pdfToImages = @ + 1]
                      /\ UNCHANGED <<imgs, idx, attempt, cur>>
                 ELSE /\ imgs' = Ascending(files)
                      /\ idx' = 1
                      /\ attempt' = 1
                      /\ cur' = NewPage(imgs'[1])
                      /\ calls' = [calls EXCEPT !.pdfToImages = @ + 1, !.geminiOCR = @ + 1]
                      /\ pc' = "gemini"
                      /\ UNCHANGED err
    /\ fullText' = <<>>
    /\ UNCHANGED <<tesseractWorker, workers, jobs, probe, env, req, res, dir, directText, waitSec, t, outcomes, posts, pageLog>>

\* how an attempt that resolved is recorded: "corrupted" when its text is not
\* empty and looksCorrupted rejects it, "text" otherwise
AnswerKind(raw) ==
    IF trim(raw) # <<>> /\ looksCorrupted(trim(raw)) THEN "corrupted" ELSE "text"

\* Mutant of GeminiAnswers: tesseractOCR is called whatever geminiOCR returned
GeminiAnswers_alwaysLocal ==
    /\ pc = "gemini"
    /\ \E raw \in TextsOver(EngineChars, MaxTextLen) :
          LET v == AcceptEngineText(raw)
          IN  /\ t' = v
              /\ cur' = [cur EXCEPT !.remote = Append(@, AnswerKind(raw)), !.remoteText = v]
              /\ pc' = "tesseract"
              /\ calls' = [calls EXCEPT !.tesseractOCR = @ + 1]
    /\ UNCHANGED <<tesseractWorker, workers, jobs, probe, env, req, res, dir, directText, imgs, idx, attempt, waitSec,
                   fullText, err, outcomes, posts, pageLog>>

\* geminiOCR: one gemini.generateContent attempt that resolves
GeminiAnswers ==
    /\ pc = "gemini"
    /\ \E raw \in TextsOver(EngineChars, MaxTextLen) :
          LET v == AcceptEngineText(raw)
          IN  /\ t' = v
              /\ cur' = [cur EXCEPT !.remote = Append(@, AnswerKind(raw)), !.remoteText = v]
              /\ IF Truthy(v)
                 THEN pc' = "pageDone" /\ UNCHANGED calls
                 ELSE pc' = "tesseract" /\ calls' = [calls EXCEPT !.tesseractOCR = @ + 1]
    /\ UNCHANGED <<tesseractWorker, workers, jobs, probe, env, req, res, dir, directText, imgs, idx, attempt, waitSec,
                   fullText, err, outcomes, posts, pageLog>>

\* Mutant of GeminiThrows: an error that is not retried is thrown on to the
\* handler instead of being turned into null
GeminiThrows_propagates ==
    /\ pc = "gemini"
    /\ \E isRateLimit \in BOOLEAN, retryAfter \in {NoRetryAfter} \cup {<<d>> : d \in RetryAfterSecs} :
          LET kind == IF isRateLimit THEN "rateLimit" ELSE "error"
          IN  IF ShouldRetry(isRateLimit, attempt)
              THEN /\ waitSec' = WaitSeconds(retryAfter, attempt)
                   /\ cur' = [cur EXCEPT !.remote = Append(@, kind), !.waits = @ + 1,
                                         !.retryAfter = retryAfter]
                   /\ pc' = "sleep"
                   /\ UNCHANGED <<t, err>>
              ELSE /\ retryAfter = NoRetryAfter
                   /\ cur' = [cur EXCEPT !.remote = Append(@, kind)]
                   /\ err' = "gemini failed"
                   /\ pc' = "cleanup"
                   /\ UNCHANGED <<t, waitSec>>
    /\ UNCHANGED <<tesseractWorker, workers, jobs, probe, env, req, res, dir, directText, imgs, idx, attempt, fullText,
                   outcomes, posts, calls, pageLog>>

\* geminiOCR: one gemini.generateContent attempt that rejects (the catch block)
GeminiThrows ==
    /\ pc = "gemini"
    /\ \E isRateLimit \in BOOLEAN, retryAfter \in {NoRetryAfter} \cup {<<d>> : d \in RetryAfterSecs} :
          LET kind == IF isRateLimit THEN "rateLimit" ELSE "error"
          IN  IF ShouldRetry(isRateLimit, attempt)
              THEN /\ waitSec' = WaitSeconds(retryAfter, attempt)
                   /\ cur' = [cur EXCEPT !.remote = Append(@, kind), !.waits = @ + 1,
                                         !.retryAfter = retryAfter]
                   /\ pc' = "sleep"
                   /\ UNCHANGED <<t, calls>>
              ELSE /\ retryAfter = NoRetryAfter
                   /\ t' = Null
                   /\ cur' = [cur EXCEPT !.remote = Append(@, kind)]
                   /\ pc' = "tesseract"
                   /\ calls' = [calls EXCEPT !.tesseractOCR = @ + 1]
                   /\ UNCHANGED waitSec
    /\ UNCHANGED <<tesseractWorker, workers, jobs, probe, env, req, res, dir, directText, imgs, idx, attempt, fullText, err,
                   outcomes, posts, pageLog>>

\* Mutant of Sleep: the timer of the wait never fires
Sleep_noWake ==
    /\ pc = "sleep"
    /\ UNCHANGED vars

\* geminiOCR: await sleep(waitSec * 1000); continue
Sleep ==
    /\ pc = "sleep"
    /\ attempt' = attempt + 1
    /\ waitSec' = 0
    /\ cur' = [cur EXCEPT !.retryAfter = NoRetryAfter]
    /\ pc' = "gemini"
    /\ UNCHANGED <<tesseractWorker, workers, jobs, probe, env, req, res, dir, directText, imgs, idx, t, fullText, err,
                   outcomes, posts, calls, pageLog>>

\* t = await tesseractOCR(img)
Tesseract ==
    /\ pc = "tesseract"
    /\ \E threw \in BOOLEAN, raw \in TextsOver(EngineChars, MaxTextLen) :
          /\ ~threw \/ raw = <<>>
          /\ LET v == IF threw THEN Null ELSE AcceptEngineText(raw)
             IN  /\ t' = v
                 /\ cur' = [cur EXCEPT !.localCalled = TRUE, !.localText = v]
    /\ pc' = "pageDone"
    /\ UNCHANGED <<tesseractWorker, workers, jobs, probe, env, req, res, dir, directText, imgs, idx, attempt, waitSec,
                   fullText, err, outcomes, posts, calls, pageLog>>

\* if (t) fullText += "\n\n" + t; then the next page's call of geminiOCR, or,
\* after the last page, the trim and the throw or the call of callback
PageDone ==
    /\ pc = "pageDone"
    /\ LET acc == Accumulate(fullText, t)
           engine == IF ~Truthy(t) THEN "none"
                     ELSE IF cur.localCalled THEN "tesseract" ELSE "gemini"
       IN  /\ pageLog' = Append(pageLog, [page |-> cur.page, engine |-> engine, text |-> t])
           /\ IF idx < Len(imgs)
              THEN /\ fullText' = acc
                   /\ idx' = idx + 1
                   /\ attempt' = 1
                   /\ cur' = NewPage(imgs[idx + 1])
                   /\ calls' = [calls EXCEPT !.geminiOCR = @ + 1]
                   /\ pc' = "gemini"
                   /\ UNCHANGED <<err, outcomes>>
              ELSE /\ fullText' = trim(acc)
                   /\ cur' = NoPage
                   /\ UNCHANGED <<idx, attempt, calls>>
                   /\ IF trim(acc) = <<>>
                      THEN /\ err' = "OCR generated no text"
                           /\ pc' = "cleanup"
                           /\ UNCHANGED outcomes
                      ELSE /\ outcomes' = Append(outcomes,
                                 SuccessPayload(req.documentId, "gemini+tesseract",
                                                <<Len(imgs)>>, trim(acc)))
                           /\ pc' = "callbackOk"
                           /\ UNCHANGED err
    /\ UNCHANGED <<tesseractWorker, workers, jobs, probe, env, req, res, dir, directText, imgs, waitSec, t, posts>>

\* Mutant of Callback: a POST that fails is sent once more
Callback_retry ==
    /\ pc \in {"callbackOk", "callbackFail"}
    /\ IF env.OCR_CALLBACK_URL = ""
       THEN UNCHANGED posts
       ELSE \E result \in {"ok", "status", "exception"} :
               LET post == [body |-> SafePayload(outcomes[Len(outcomes)]),
                            result |-> result]
               IN  posts' = IF result = "ok" THEN Append(posts, post)
                            ELSE posts \o <<post, post>>
    /\ pc' = IF pc = "callbackOk" THEN "cleanup" ELSE "done"
    /\ UNCHANGED <<tesseractWorker, workers, jobs, probe, env, req, res, dir, directText, imgs, idx, attempt, waitSec, t,
                   fullText, err, outcomes, calls, cur, pageLog>>

\* await callback(OCR_CALLBACK_URL, payload)
Callback ==
    /\ pc \in {"callbackOk", "callbackFail"}
    /\ IF env.OCR_CALLBACK_URL = ""
       THEN UNCHANGED posts
       ELSE \E result \in {"ok", "status", "exception"} :
               posts' = Append(posts, [body |-> SafePayload(outcomes[Len(outcomes)]),
                                       result |-> result])
    /\ pc' = IF pc = "callbackOk" THEN "cleanup" ELSE "done"
    /\ UNCHANGED <<tesseractWorker, workers, jobs, probe, env, req, res, dir, directText, imgs, idx, attempt, waitSec, t,
                   fullText, err, outcomes, calls, cur, pageLog>>

\* Mutant of Cleanup: a failed job is also answered with status 500
Cleanup_answers500 ==
    /\ pc = "cleanup"
    /\ dir' = "removed"
    /\ IF err # NoErr
       THEN /\ outcomes' = Append(outcomes, FailurePayload(req.documentId, err))
            /\ res' = Append(res, [status |-> 500, ok |-> FALSE, body |-> err])
            /\ pc' = "callbackFail"
       ELSE /\ pc' = "done"
            /\ UNCHANGED <<outcomes, res>>
    /\ UNCHANGED <<tesseractWorker, workers, jobs, probe, env, req, directText, imgs, idx, attempt, waitSec, t,
                   fullText, err, posts, calls, cur, pageLog>>

\* Mutant of Cleanup: the directory is removed on the success path only
Cleanup_successOnly ==
    /\ pc = "cleanup"
    /\ dir' = IF err # NoErr THEN dir ELSE "removed"
    /\ IF err # NoErr
       THEN /\ outcomes' = Append(outcomes, FailurePayload(req.documentId, err))
            /\ pc' = "callbackFail"
       ELSE /\ pc' = "done"
            /\ UNCHANGED outcomes
    /\ UNCHANGED <<tesseractWorker, workers, jobs, probe, env, req, res, directText, imgs, idx, attempt, waitSec, t,
                   fullText, err, posts, calls, cur, pageLog>>

\* finally { await fsp.rm(dir, ...) }, then the outer catch up to its callback
Cleanup ==
    /\ pc = "cleanup"
    /\ dir' = "removed"
    /\ IF err # NoErr
       THEN /\ outcomes' = Append(outcomes, FailurePayload(req.documentId, err))
            /\ pc' = "callbackFail"
       ELSE /\ pc' = "done"
            /\ UNCHANGED outcomes
    /\ UNCHANGED <<tesseractWorker, workers, jobs, probe, env, req, res, directText, imgs, idx, attempt, waitSec, t,
                   fullText, err, posts, calls, cur, pageLog>>

Next ==
    \/ Receive
    \/ Download
    \/ PdfToText
    \/ PdfToImages
    \/ GeminiAnswers
    \/ GeminiThrows
    \/ Sleep
    \/ Tesseract
    \/ PageDone
    \/ Callback
    \/ Cleanup

Spec == Init /\ [][Next]_vars

\* Every await of the handler settles: the download, pdftotext, pdftoppm, an
\* engine attempt, the timer of a retry wait and the notification POST each
\* return or throw, and Node then runs the handler's next step.
\* The configurations explored for termination: the cap on the notified text
\* and the Arabic policy, which decide no branch that repeats, are at their
\* defaults.
LiveInit ==
    /\ Init
    /\ env.FORCE_OCR_FOR_AR
    /\ env.MAX_CALLBACK_TEXT_CHARS = MaxTextLen + 1

SpecLive == LiveInit /\ [][Next]_vars /\ WF_vars(Next)

\* The same handler when the provider may leave a generateContent call
\* unanswered: await gemini.generateContent(...) has no timer beside it, so
\* only the steps that do not wait for Gemini are sure to happen.
NoReplySteps ==
    \/ Receive
    \/ Download
    \/ PdfToText
    \/ PdfToImages
    \/ Sleep
    \/ Tesseract
    \/ PageDone
    \/ Callback
    \/ Cleanup

SpecNoReply == LiveInit /\ [][Next]_vars /\ WF_vars(NoReplySteps)

----------------------------------------------------------------------------
(* The helpers applied on their own: tryPdfToText, looksCorrupted and      *)
(* pdfToImages, each on inputs drawn from bounded sets, under the          *)
(* configuration the process was started with.                             *)

UnitChars == {"x", " ", "@", "FFFD", "ctl", "del"}

Rep(c, n) == [i \in 1..n |-> c]

\* samples around the 3 % ratio, the runs and the 800-character window:
\* letters, a block of one symbol, and possibly one more letter
LeadLens == {0, 92, 95, 96, 97, SampleLen - 8, SampleLen - 7, SampleLen}
BlockChars == {"@", "%", "#", "FFFD", "ctl", "del", " "}
BlockTexts ==
    {Rep("x", a) \o Rep(c, b) \o Rep("x", d) :
        a \in LeadLens, c \in BlockChars, b \in 0..MaxBlock, d \in {0, 1}}

Samples == TextsOver(UnitChars, MaxUnitLen) \cup BlockTexts \cup {Null}

BaseEnv == [GEMINI_API_KEY |-> "key", OCR_CALLBACK_URL |-> "url",
            FORCE_OCR |-> FALSE, FORCE_OCR_FOR_AR |-> TRUE,
            MIN_PDFTEXT_LEN |-> MaxTextLen, MAX_PDF_PAGES |-> MaxPagesCeil,
            MAX_CALLBACK_TEXT_CHARS |-> MaxTextLen + 1]

TextEnvs ==
    {[BaseEnv EXCEPT !.FORCE_OCR = f, !.FORCE_OCR_FOR_AR = a, !.MIN_PDFTEXT_LEN = m] :
        f \in BOOLEAN, a \in BOOLEAN, m \in 0..MaxUnitLen}

PageEnvs == {[BaseEnv EXCEPT !.MAX_PDF_PAGES = c] : c \in 1..MaxDocPages}

\* number of decimal digits of a page number below 100
Digits(n) == IF n < 10 THEN 1 ELSE 2

\* pdftoppm -png -f 1 -l last pdf prefix: one file prefix-<number>.png per
\* rendered page, the number zero-padded to width digits.  A file name is
\* <<digits written, page>>.
PdftoppmFiles(last, width) == {<<Max(width, Digits(i)), i>> : i \in 1..last}

\* the i in 1..max for which `${prefix}-${i}.png` exists
FilesFound(files, max) == {i \in 1..max : <<Digits(i), i>> \in files}

InitFn ==
    /\ env \in TextEnvs \cup PageEnvs
    /\ pc = "unit"
    /\ probe = NoProbe
    /\ NoJob
    /\ NoJobs

\* tryPdfToText(pdfPath)
ApplyTryPdfToText ==
    /\ pc = "unit" /\ probe.fn = "none"
    /\ env \in TextEnvs
    /\ \E stdout \in TextsOver(PdfChars, MaxUnitLen), exit0 \in BOOLEAN :
          /\ exit0 \/ stdout = <<>>
          /\ probe' = [fn |-> "tryPdfToText",
                       arg |-> [exit0 |-> exit0, stdout |-> stdout],
                       ret |-> IF exit0 THEN AcceptPdfText(stdout) ELSE Null]
    /\ UNCHANGED <<tesseractWorker, workers, jobs, env, pc, req, res, dir, directText, imgs, idx, attempt, waitSec, t,
                   fullText, err, outcomes, posts, calls, cur, pageLog>>

\* the language hints a request body may carry
LanguageHints == {Undefined, "ar", "en"}

\* the handler's way from the request body to directText: the body is
\* destructured into documentId, bucket, objectPath and maxPages, and
\* tryPdfToText is given the path of the downloaded file only
ApplyDirectText ==
    /\ pc = "unit" /\ probe.fn = "none"
    /\ env \in TextEnvs
    /\ \E languageHint \in LanguageHints, stdout \in TextsOver(PdfChars, MaxTextLen) :
          probe' = [fn |-> "directText",
                    arg |-> [languageHint |-> languageHint, stdout |-> stdout],
                    ret |-> AcceptPdfText(stdout)]
    /\ UNCHANGED <<tesseractWorker, workers, jobs, env, pc, req, res, dir, directText, imgs, idx, attempt, waitSec, t,
                   fullText, err, outcomes, posts, calls, cur, pageLog>>

\* looksCorrupted(text)
ApplyLooksCorrupted ==
    /\ pc = "unit" /\ probe.fn = "none"
    /\ env = BaseEnv
    /\ \E text \in Samples :
          probe' = [fn |-> "looksCorrupted", arg |-> text, ret |-> looksCorrupted(text)]
    /\ UNCHANGED <<tesseractWorker, workers, jobs, env, pc, req, res, dir, directText, imgs, idx, attempt, waitSec, t,
                   fullText, err, outcomes, posts, calls, cur, pageLog>>

\* pdfToImages(pdf, dir, pages) on a document of docPages pages; pdftoppm pads
\* the page number to the digits of the document's page count or of the last
\* page it renders, depending on its version
ApplyPdfToImages ==
    /\ pc = "unit" /\ probe.fn = "none"
    /\ env \in PageEnvs
    /\ \E pages \in 1..(MaxDocPages + 1), docPages \in 1..MaxDocPages :
          LET max == LastPage(pages)
              last == Min(max, docPages)
          IN  \E width \in {Digits(docPages), Digits(last)} :
                 LET found == FilesFound(PdftoppmFiles(last, width), max)
                 IN  probe' = [fn |-> "pdfToImages",
                               arg |-> [pages |-> pages, docPages |-> docPages,
                                        width |-> width],
                               ret |-> [imgs |-> Ascending(found),
                                        threw |-> found = {}]]
    /\ UNCHANGED <<tesseractWorker, workers, jobs, env, pc, req, res, dir, directText, imgs, idx, attempt, waitSec, t,
                   fullText, err, outcomes, posts, calls, cur, pageLog>>

NextFn ==
    \/ ApplyTryPdfToText
    \/ ApplyDirectText
    \/ ApplyLooksCorrupted
    \/ ApplyPdfToImages

SpecFn == InitFn /\ [][NextFn]_vars

----------------------------------------------------------------------------
(* The synchronous POST /ocr handler of src/unnamed/part_003: the response  *)
(* is written when the job has ended.  One step per await; req carries the  *)
(* callback URL in force (the request's, else the process's, else none).    *)

CallbackUrls == {"", "url", "bad"}       \* none, a URL, a string new URL() rejects

\* one page more than MaxPagesCeil, so that a page without text can stand
\* between two pages with text
SyncMaxPages == MaxPagesCeil + 1

SyncEnvs == {[BaseEnv EXCEPT !.OCR_CALLBACK_URL = u, !.MAX_PDF_PAGES = SyncMaxPages] :
                u \in CallbackUrls}

SyncStdouts == {<<>>, Rep("x", DirectMinLen - 1), Rep("x", DirectMinLen)}

\* what geminiOcrImage / tesseractOcrImage give for a page; Null: it threw
SyncGeminiTexts == {Null, <<>>, <<"x">>, Rep("x", GeminiMinLen + 1)}
SyncTesseractTexts == {Null, <<>>, <<"x">>}

NotifyErrors == {"Invalid callbackUrl", "Callback status", "Callback aborted"}

\* tryExtractTextPdftotext after pdftotext exited 0 with this stdout
ExtractDirect(stdout) ==
    LET text == trim(stdout)
    IN  IF text # <<>> /\ normalizedLen(text) >= DirectMinLen THEN text ELSE Null

\* pageTexts.join("\n\n")
RECURSIVE JoinPages(_)
JoinPages(texts) ==
    IF texts = <<>> THEN <<>>
    ELSE IF Len(texts) = 1 THEN texts[1]
    ELSE texts[1] \o <<"nl", "nl">> \o JoinPages(Tail(texts))

\* ocrImages: the text one page contributes
SyncPageText(g, l) ==
    IF Truthy(g) /\ Len(g) > GeminiMinLen THEN g
    ELSE IF Truthy(l) THEN l ELSE <<>>

SyncInit ==
    /\ env \in SyncEnvs
    /\ pc = "s_idle"
    /\ probe = NoProbe
    /\ NoJob
    /\ NoJobs

\* requireWorkerSecret and app.post("/ocr") up to the first await
SyncReceive ==
    /\ pc = "s_idle"
    /\ \E secretOk \in BOOLEAN, documentId \in {Undefined, "doc"}, locator \in BOOLEAN,
          maxPages \in 0..(SyncMaxPages + 1), callbackUrl \in CallbackUrls :
          IF ~secretOk
          THEN /\ res' = Append(res, [status |-> 401, ok |-> FALSE, body |-> "Unauthorized"])
               /\ pc' = "s_done"
               /\ UNCHANGED <<req, dir>>
          ELSE IF documentId = Undefined \/ ~locator
          THEN /\ res' = Append(res, [status |-> 400, ok |-> FALSE, body |-> "Missing fields"])
               /\ pc' = "s_done"
               /\ UNCHANGED <<req, dir>>
          ELSE /\ req' = [documentId |-> documentId,
                          maxPages |-> IF maxPages = 0 THEN env.MAX_PDF_PAGES ELSE maxPages,
                          callbackUrl |-> IF callbackUrl # "" THEN callbackUrl
                                          ELSE env.OCR_CALLBACK_URL]
               /\ dir' = "exists"
               /\ pc' = "s_download"
               /\ UNCHANGED res
    /\ UNCHANGED <<tesseractWorker, workers, jobs, probe, env, directText, imgs, idx, attempt, waitSec, t, fullText, err,
                   outcomes, posts, calls, cur, pageLog>>

\* await downloadFromSupabase(bucket, objectPath, pdfFile)
SyncDownload ==
    /\ pc = "s_download"
    /\ \E found \in BOOLEAN :
          IF found
          THEN pc' = "s_pdftotext" /\ UNCHANGED err
          ELSE pc' = "s_catch" /\ err' = "Supabase download error"
    /\ UNCHANGED <<tesseractWorker, workers, jobs, probe, env, req, res, dir, directText, imgs, idx, attempt, waitSec, t,
                   fullText, outcomes, posts, calls, cur, pageLog>>

\* where the handler goes with a success payload in hand
SyncAfterSuccess == IF req.callbackUrl # "" THEN "s_notify" ELSE "s_respond"

\* await tryExtractTextPdftotext(pdfFile) and the branch on directText
SyncPdfToText ==
    /\ pc = "s_pdftotext"
    /\ \E exit0 \in BOOLEAN, stdout \in SyncStdouts :
          /\ exit0 \/ stdout = <<>>
          /\ directText' = IF exit0 THEN ExtractDirect(stdout) ELSE Null
    /\ IF Truthy(directText')
       THEN /\ outcomes' = Append(outcomes,
                  SuccessPayload(req.documentId, "pdftotext", NullPages, directText'))
            /\ pc' = SyncAfterSuccess
       ELSE /\ pc' = "s_pdftoppm"
            /\ UNCHANGED outcomes
    /\ UNCHANGED <<tesseractWorker, workers, jobs, probe, env, req, res, dir, imgs, idx, attempt, waitSec, t, fullText, err,
                   posts, calls, cur, pageLog>>

\* await convertPdfToImages(pdfFile, tempDir, maxPagesReq)
SyncConvert ==
    /\ pc = "s_pdftoppm"
    /\ LET pages == Min(Max(1, req.maxPages), env.MAX_PDF_PAGES)
       IN  \E exit0 \in BOOLEAN, files \in SUBSET (1..pages) :
              /\ exit0 \/ files = {}
              /\ IF ~exit0
                 THEN /\ err' = "pdftoppm failed"
                      /\ pc' = "s_catch"
                      /\ UNCHANGED <<imgs, idx>>
                 ELSE IF files = {}
                 THEN /\ err' = "No images generated from PDF"
                      /\ pc' = "s_catch"
                      /\ UNCHANGED <<imgs, idx>>
                 ELSE /\ imgs' = Ascending(files)
                      /\ idx' = 1
                      /\ pc' = "s_ocr"
                      /\ UNCHANGED err
    /\ UNCHANGED <<tesseractWorker, workers, jobs, probe, env, req, res, dir, directText, attempt, waitSec, t, fullText,
                   outcomes, posts, calls, cur, pageLog>>

\* ocrImages: one turn of its loop, and after the last page the join, the
\* throw on an empty text and the success payload
SyncOcrPage ==
    /\ pc = "s_ocr"
    /\ \E g \in SyncGeminiTexts, l \in SyncTesseractTexts :
          LET pageTexts == Append(pageLog, SyncPageText(g, l))
              combined == trim(JoinPages(pageTexts))
          IN  /\ pageLog' = pageTexts
              /\ IF idx < Len(imgs)
                 THEN /\ idx' = idx + 1
                      /\ UNCHANGED <<pc, fullText, err, outcomes>>
                 ELSE /\ fullText' = combined
                      /\ UNCHANGED idx
                      /\ IF combined = <<>>
                         THEN /\ err' = "OCR produced empty text"
                              /\ pc' = "s_catch"
                              /\ UNCHANGED outcomes
                         ELSE /\ outcomes' = Append(outcomes,
                                    SuccessPayload(req.documentId,
                                                   "gemini_primary_tesseract_fallback",
                                                   <<Len(imgs)>>, combined))
                              /\ pc' = SyncAfterSuccess
                              /\ UNCHANGED err
    /\ UNCHANGED <<tesseractWorker, workers, jobs, probe, env, req, res, dir, directText, imgs, attempt, waitSec, t,
                   posts, calls, cur>>

\* await postCallback(callbackUrl, payload) inside the try block: a rejected
\* URL, a status that is not 2xx and a timeout or connection error all throw
SyncNotify ==
    /\ pc = "s_notify"
    /\ IF req.callbackUrl = "bad"
       THEN /\ err' = "Invalid callbackUrl"
            /\ pc' = "s_catch"
            /\ UNCHANGED posts
       ELSE \E result \in {"ok", "status", "exception"} :
               /\ posts' = Append(posts, [body |-> outcomes[Len(outcomes)],
                                          result |-> result])
               /\ IF result = "ok"
                  THEN pc' = "s_respond" /\ UNCHANGED err
                  ELSE /\ pc' = "s_catch"
                       /\ err' = IF result = "status" THEN "Callback status"
                                 ELSE "Callback aborted"
    /\ UNCHANGED <<tesseractWorker, workers, jobs, probe, env, req, res, dir, directText, imgs, idx, attempt, waitSec, t,
                   fullText, outcomes, calls, cur, pageLog>>

\* return res.json({ ok: true, ... })
SyncRespond ==
    /\ pc = "s_respond"
    /\ res' = Append(res, [status |-> 200, ok |-> TRUE, body |-> "outcome"])
    /\ pc' = "s_cleanup"
    /\ UNCHANGED <<tesseractWorker, workers, jobs, probe, env, req, dir, directText, imgs, idx, attempt, waitSec, t,
                   fullText, err, outcomes, posts, calls, cur, pageLog>>

\* catch (e): the failure callback, whose own error is only logged, and
\* res.status(500)
SyncCatch ==
    /\ pc = "s_catch"
    /\ IF req.callbackUrl = ""
       THEN UNCHANGED <<outcomes, posts>>
       ELSE /\ outcomes' = Append(outcomes, FailurePayload(req.documentId, err))
            /\ IF req.callbackUrl = "bad"
               THEN UNCHANGED posts
               ELSE \E result \in {"ok", "status", "exception"} :
                       posts' = Append(posts, [body |-> FailurePayload(req.documentId, err),
                                               result |-> result])
    /\ res' = Append(res, [status |-> 500, ok |-> FALSE, body |-> err])
    /\ pc' = "s_cleanup"
    /\ UNCHANGED <<tesseractWorker, workers, jobs, probe, env, req, dir, directText, imgs, idx, attempt, waitSec, t,
                   fullText, err, calls, cur, pageLog>>

\* finally: fsp.rm(tempDir, ...)
SyncCleanup ==
    /\ pc = "s_cleanup"
    /\ dir' = "removed"
    /\ pc' = "s_done"
    /\ UNCHANGED <<tesseractWorker, workers, jobs, probe, env, req, res, directText, imgs, idx, attempt, waitSec, t,
                   fullText, err, outcomes, posts, calls, cur, pageLog>>

SyncNext ==
    \/ SyncReceive
    \/ SyncDownload
    \/ SyncPdfToText
    \/ SyncConvert
    \/ SyncOcrPage
    \/ SyncNotify
    \/ SyncRespond
    \/ SyncCatch
    \/ SyncCleanup

SpecSync == SyncInit /\ [][SyncNext]_vars

----------------------------------------------------------------------------
(* The POST /ocr handler of the last variant in src/unnamed/part_003, with  *)
(* its shared Tesseract worker (getWorker, tesseractOCR), under several     *)
(* requests in flight at once.  Node runs the handlers on one thread, so a  *)
(* step is the code between two awaits and the steps of different requests  *)
(* interleave freely.  Of a request's texts only whether they are empty is  *)
(* kept.                                                                    *)

Jobs == 1..NumJobs

\* a request that has not arrived yet.  secret: the header equals
\* OCR_WORKER_SECRET; locator: bucket and objectPath are both in the body;
\* status: the HTTP answer, 0 for none; dir: the scratch directory exists;
\* text: fullText is not empty; notified: what was handed to callback()
IdleJob == [pc |-> "idle", secret |-> FALSE, documentId |-> Undefined, locator |-> FALSE,
            status |-> 0, dir |-> FALSE, downloads |-> 0, page |-> 0, pages |-> 0,
            worker |-> 0, text |-> FALSE, notified |-> "none"]

\* the page loop moves on once a page is finished; after the last page the
\* handler goes on to its callback
AfterPage(job, gotText) ==
    IF job.page < job.pages
    THEN [job EXCEPT !.pc = "gemini", !.page = @ + 1, !.worker = 0,
                     !.text = @ \/ gotText]
    ELSE [job EXCEPT !.pc = "callback", !.worker = 0, !.text = @ \/ gotText]

WorkerInit ==
    /\ env = BaseEnv
    /\ pc = "jobs"
    /\ probe = NoProbe
    /\ NoJob
    /\ tesseractWorker = 0
    /\ workers = 0
    /\ jobs = [j \in Jobs |-> IdleJob]

\* a step of one request leaves the state of the other handlers' models alone
OtherState ==
    /\ pc = "jobs"
    /\ UNCHANGED <<probe, env, pc, req, res, dir, directText, imgs, idx, attempt, waitSec, t,
                   fullText, err, outcomes, posts, calls, cur, pageLog>>

\* app.post("/ocr") up to its first await: the secret test, res.json({ok: true}),
\* tmpDir()
JobReceive(j) ==
    /\ OtherState
    /\ jobs[j].pc = "idle"
    /\ \E secretOk \in BOOLEAN, documentId \in {Undefined, "doc"}, locator \in BOOLEAN :
          jobs' = [jobs EXCEPT ![j] =
                     IF ~secretOk
                     THEN [@ EXCEPT !.pc = "done", !.secret = FALSE, !.documentId = documentId,
                                    !.locator = locator, !.status = 401]
                     ELSE [@ EXCEPT !.pc = "download", !.secret = TRUE,
                                    !.documentId = documentId, !.locator = locator,
                                    !.status = 200, !.dir = TRUE]]
    /\ UNCHANGED <<tesseractWorker, workers>>

\* await download(bucket, objectPath, pdf): Supabase has no object for an
\* undefined bucket or path
JobDownload(j) ==
    /\ OtherState
    /\ jobs[j].pc = "download"
    /\ \E found \in (IF jobs[j].locator THEN BOOLEAN ELSE {FALSE}) :
          jobs' = [jobs EXCEPT ![j] =
                     IF found THEN [@ EXCEPT !.pc = "pdftotext", !.downloads = @ + 1]
                     ELSE [@ EXCEPT !.pc = "cleanup", !.downloads = @ + 1,
                                    !.notified = "error"]]
    /\ UNCHANGED <<tesseractWorker, workers>>

\* const direct = await tryPdfToText(pdf); if (direct) { await callback(...); return }
JobPdfToText(j) ==
    /\ OtherState
    /\ jobs[j].pc = "pdftotext"
    /\ \E direct \in BOOLEAN :
          jobs' = [jobs EXCEPT ![j] =
                     IF direct THEN [@ EXCEPT !.pc = "cleanup", !.text = TRUE,
                                              !.notified = "pdftotext"]
                     ELSE [@ EXCEPT !.pc = "images"]]
    /\ UNCHANGED <<tesseractWorker, workers>>

\* const imgs = await pdfToImages(pdf, dir, MAX_PDF_PAGES), or pdftoppm fails
JobPdfToImages(j) ==
    /\ OtherState
    /\ jobs[j].pc = "images"
    /\ \E n \in (-1)..MaxJobPages :
          jobs' = [jobs EXCEPT ![j] =
                     IF n = -1 THEN [@ EXCEPT !.pc = "cleanup", !.notified = "error"]
                     ELSE IF n = 0 THEN [@ EXCEPT !.pc = "callback"]
                     ELSE [@ EXCEPT !.pc = "gemini", !.page = 1, !.pages = n]]
    /\ UNCHANGED <<tesseractWorker, workers>>

\* let t = await geminiOCR(img); if (!t) t = await tesseractOCR(img)
GeminiReturns(j) ==
    /\ OtherState
    /\ jobs[j].pc = "gemini"
    /\ \E text \in BOOLEAN :
          jobs' = [jobs EXCEPT ![j] = IF text THEN AfterPage(@, TRUE)
                                      ELSE [@ EXCEPT !.pc = "getWorker"]]
    /\ UNCHANGED <<tesseractWorker, workers>>

\* getWorker up to its first await: the test of tesseractWorker, and
\* createWorker() when it is null
GetWorker(j) ==
    /\ OtherState
    /\ jobs[j].pc = "getWorker"
    /\ IF tesseractWorker # 0
       THEN /\ jobs' = [jobs EXCEPT ![j] = [@ EXCEPT !.pc = "recognize",
                                                      !.worker = tesseractWorker]]
            /\ UNCHANGED workers
       ELSE /\ workers' = workers + 1
            /\ jobs' = [jobs EXCEPT ![j] = [@ EXCEPT !.pc = "initialize",
                                                      !.worker = workers + 1]]
    /\ UNCHANGED tesseractWorker

\* createWorker, loadLanguage, initialize and setParameters have resolved:
\* tesseractWorker = worker; or one of them threw and tesseractOCR returns null
WorkerReady(j) ==
    /\ OtherState
    /\ jobs[j].pc = "initialize"
    /\ \E threw \in BOOLEAN :
          IF threw
          THEN /\ jobs' = [jobs EXCEPT ![j] = AfterPage(@, FALSE)]
               /\ UNCHANGED tesseractWorker
          ELSE /\ tesseractWorker' = jobs[j].worker
               /\ jobs' = [jobs EXCEPT ![j] = [@ EXCEPT !.pc = "recognize"]]
    /\ UNCHANGED workers

\* await worker.recognize(imgPath) has resolved or thrown; t is the text or null
Recognized(j) ==
    /\ OtherState
    /\ jobs[j].pc = "recognize"
    /\ \E text \in BOOLEAN :
          jobs' = [jobs EXCEPT ![j] = AfterPage(@, text)]
    /\ UNCHANGED <<tesseractWorker, workers>>

\* after the loop: the failure or the success payload goes to callback()
JobCallback(j) ==
    /\ OtherState
    /\ jobs[j].pc = "callback"
    /\ jobs' = [jobs EXCEPT ![j] =
                  [@ EXCEPT !.pc = "cleanup",
                            !.notified = IF jobs[j].text THEN "gemini+tesseract"
                                         ELSE "OCR generated no text"]]
    /\ UNCHANGED <<tesseractWorker, workers>>

\* finally: await fsp.rm(dir, {recursive: true, force: true}).catch(() => {})
JobCleanup(j) ==
    /\ OtherState
    /\ jobs[j].pc = "cleanup"
    /\ jobs' = [jobs EXCEPT ![j] = [@ EXCEPT !.pc = "done", !.dir = FALSE]]
    /\ UNCHANGED <<tesseractWorker, workers>>

WorkerNext ==
    \/ \E j \in Jobs : JobReceive(j)
    \/ \E j \in Jobs : JobDownload(j)
    \/ \E j \in Jobs : JobPdfToText(j)
    \/ \E j \in Jobs : JobPdfToImages(j)
    \/ \E j \in Jobs : GeminiReturns(j)
    \/ \E j \in Jobs : GetWorker(j)
    \/ \E j \in Jobs : WorkerReady(j)
    \/ \E j \in Jobs : Recognized(j)
    \/ \E j \in Jobs : JobCallback(j)
    \/ \E j \in Jobs : JobCleanup(j)

SpecWorker == WorkerInit /\ [][WorkerNext]_vars

----------------------------------------------------------------------------
(* The POST /process handler of src/unnamed/part_000: the whole job runs    *)
(* before the response, one step per await.  Nothing is required of the     *)
(* environment when the module loads: an unset OCR_WORKER_SECRET is         *)
(* undefined, and supabase and genAI are null when they are not configured. *)
(* The recognized text itself is left out; a notification is kept as its    *)
(* status, provider and attempts.                                           *)

ProcessEnvs == [OCR_WORKER_SECRET : {Undefined, "secret"},
                OCR_CALLBACK_URL : {"", "url"},
                supabase : BOOLEAN,
                genAI : BOOLEAN]

\* req.headers["x-worker-secret"]: absent, the configured value, another value
SecretHeaders == {Undefined, "secret", "wrong"}

\* what the race of generateContent against the 90 s timer settles with
GeminiOutcomes == {"text", "gemini_timeout", "429", "error"}

\* the seconds a 429 message may name after "retry"
RetryHints == {<<>>, <<5>>}

\* is429: the message contains "429", "quota" or "rate"
is429(msg) == msg = "429"

\* delay = 2000 * 2^attempt, or ceil(retry seconds * 1000) + 1000
ProcessDelay(hint, n) ==
    IF hint # <<>> THEN hint[1] * 1000 + ProcessRetryPadMs
    ELSE ProcessBackoffMs * (2 ^ n)

ProcessInit ==
    /\ env \in ProcessEnvs
    /\ pc = "p_idle"
    /\ probe = NoProbe
    /\ req = [documentId |-> Undefined, header |-> Undefined]
    /\ res = <<>>
    /\ dir = "none"
    /\ directText = Null
    /\ imgs = <<>>
    /\ idx = 0
    /\ attempt = 0
    /\ waitSec = 0
    /\ t = Null
    /\ fullText = <<>>
    /\ err = NoErr
    /\ outcomes = <<>>
    /\ posts = <<>>
    /\ calls = NoCalls
    /\ cur = NoPage
    /\ pageLog = <<>>
    /\ NoJobs

\* app.post("/process") up to its first await
ProcessReceive ==
    /\ pc = "p_idle"
    /\ \E header \in SecretHeaders, documentId \in {Undefined, "doc"} :
          /\ req' = [documentId |-> documentId, header |-> header]
          /\ IF header # env.OCR_WORKER_SECRET
             THEN /\ res' = Append(res, [status |-> 401, ok |-> FALSE, body |-> "Unauthorized"])
                  /\ pc' = "p_done"
                  /\ UNCHANGED err
             ELSE IF ~env.supabase
             THEN /\ err' = "Supabase client not configured"
                  /\ pc' = "p_catch"
                  /\ UNCHANGED res
             ELSE /\ pc' = "p_download"
                  /\ UNCHANGED <<res, err>>
    /\ UNCHANGED <<tesseractWorker, workers, jobs, probe, env, dir, directText, imgs, idx,
                   attempt, waitSec, t, fullText, outcomes, posts, calls, cur, pageLog>>

\* await supabase.storage.from(bucket).download(path); geminiOCR up to its
\* first await
ProcessDownload ==
    /\ pc = "p_download"
    /\ calls' = [calls EXCEPT !.download = @ + 1]
    /\ \E found \in BOOLEAN :
          IF ~found
          THEN pc' = "p_catch" /\ err' = "download failed"
          ELSE pc' = (IF env.genAI THEN "p_gemini" ELSE "p_tesseract") /\ UNCHANGED err
    /\ UNCHANGED <<tesseractWorker, workers, jobs, probe, env, req, res, dir, directText, imgs,
                   idx, attempt, waitSec, t, fullText, outcomes, posts, cur, pageLog>>

\* one turn of geminiOCR's while loop: the race settles
ProcessGemini ==
    /\ pc = "p_gemini"
    /\ attempt < maxAttempts
    /\ attempt' = attempt + 1
    /\ calls' = [calls EXCEPT !.geminiOCR = @ + 1]
    /\ \E o \in GeminiOutcomes, hint \in RetryHints :
          /\ outcomes' = Append(outcomes, o)
          /\ IF o = "text"
             THEN /\ t' = <<"gemini">>
                  /\ pc' = "p_completed"
                  /\ UNCHANGED waitSec
             ELSE IF ~is429(o) \/ attempt + 1 = maxAttempts
             THEN /\ pc' = "p_tesseract"
                  /\ UNCHANGED <<t, waitSec>>
             ELSE /\ waitSec' = ProcessDelay(hint, attempt + 1)
                  /\ pc' = "p_sleep"
                  /\ UNCHANGED t
    /\ UNCHANGED <<tesseractWorker, workers, jobs, probe, env, req, res, dir, directText, imgs,
                   idx, fullText, err, posts, cur, pageLog>>

\* await sleep(delay)
ProcessSleep ==
    /\ pc = "p_sleep"
    /\ pc' = "p_gemini"
    /\ waitSec' = 0
    /\ UNCHANGED <<tesseractWorker, workers, jobs, probe, env, req, res, dir, directText, imgs,
                   idx, attempt, t, fullText, err, outcomes, posts, calls, cur, pageLog>>

\* catch (e) { result = await tesseractOCR(...) }: its own worker, terminated
\* in finally; a throw leaves the outer try
ProcessTesseract ==
    /\ pc = "p_tesseract"
    /\ calls' = [calls EXCEPT !.tesseractOCR = @ + 1]
    /\ \E threw \in BOOLEAN :
          IF threw
          THEN pc' = "p_catch" /\ err' = "tesseract failed" /\ UNCHANGED t
          ELSE pc' = "p_completed" /\ t' = <<"tesseract">> /\ UNCHANGED err
    /\ UNCHANGED <<tesseractWorker, workers, jobs, probe, env, req, res, dir, directText, imgs,
                   idx, attempt, waitSec, fullText, outcomes, posts, cur, pageLog>>

\* callbackNext: skipped without OCR_CALLBACK_URL, failures only logged
callbackNext(documentId, status, provider, attempts) ==
    IF env.OCR_CALLBACK_URL = "" THEN posts
    ELSE Append(posts, [documentId |-> documentId, status |-> status,
                        provider |-> provider, attempts |-> attempts])

\* await callbackNext(documentId, "COMPLETED", ...); res.json({ok: true, ...result})
ProcessCompleted ==
    /\ pc = "p_completed"
    /\ posts' = callbackNext(req.documentId, "COMPLETED", t[1],
                             IF t[1] = "gemini" THEN attempt ELSE 1)
    /\ res' = Append(res, [status |-> 200, ok |-> TRUE, body |-> t[1]])
    /\ pc' = "p_done"
    /\ UNCHANGED <<tesseractWorker, workers, jobs, probe, env, req, dir, directText, imgs, idx,
                   attempt, waitSec, t, fullText, err, outcomes, calls, cur, pageLog>>

\* catch (e): await callbackNext(documentId, "FAILED", null, ...); res.status(502)
ProcessCatch ==
    /\ pc = "p_catch"
    /\ posts' = callbackNext(req.documentId, "FAILED", "none", 0)
    /\ res' = Append(res, [status |-> 502, ok |-> FALSE, body |-> err])
    /\ pc' = "p_done"
    /\ UNCHANGED <<tesseractWorker, workers, jobs, probe, env, req, dir, directText, imgs, idx,
                   attempt, waitSec, t, fullText, err, outcomes, calls, cur, pageLog>>

ProcessNext ==
    \/ ProcessReceive
    \/ ProcessDownload
    \/ ProcessGemini
    \/ ProcessSleep
    \/ ProcessTesseract
    \/ ProcessCompleted
    \/ ProcessCatch

SpecProcess == ProcessInit /\ [][ProcessNext]_vars

----------------------------------------------------------------------------
(* The scratch directories of src/unnamed/part_002 under several /ocr       *)
(* requests in flight at once.  Of a request only the steps that touch its  *)
(* directory are kept: tmpDir(), the download that writes input.pdf,        *)
(* pdftotext that reads it, pdftoppm that writes the page images, the page  *)
(* loop that reads them, and the rm in finally.  Here the variable dir is   *)
(* the state of os.tmpdir(): the names drawn so far, the directories that   *)
(* exist, and the files in them with the request that wrote each.           *)

\* Mutant of tmpDir: every request gets the same directory name
tmpDir_sameName(drawn) == 1

\* tmpDir(): "ocr-" and 8 bytes of crypto.randomBytes, taken as a name no
\* earlier call in the process has drawn
tmpDir(drawn) == drawn + 1

NoDisk == [drawn |-> 0, disk |-> {}, files |-> {}]

IdleScratchJob == [pc |-> "idle", dir |-> 0, read |-> {}]

\* fsp.writeFile / pdftoppm writing dir/name: an older file of that path is
\* replaced
WriteFile(files, d, name, j) ==
    {f \in files : ~(f.d = d /\ f.name = name)} \cup {[d |-> d, name |-> name, by |-> j]}

\* who wrote the file a read of dir/name finds
WritersOf(files, d, name) == {f.by : f \in {g \in files : g.d = d /\ g.name = name}}

ScratchInit ==
    /\ env = BaseEnv
    /\ pc = "scratch"
    /\ probe = NoProbe
    /\ req = [documentId |-> Undefined, maxPages |-> 0]
    /\ res = <<>>
    /\ dir = NoDisk
    /\ directText = Null
    /\ imgs = <<>>
    /\ idx = 0
    /\ attempt = 0
    /\ waitSec = 0
    /\ t = Null
    /\ fullText = <<>>
    /\ err = NoErr
    /\ outcomes = <<>>
    /\ posts = <<>>
    /\ calls = NoCalls
    /\ cur = NoPage
    /\ pageLog = <<>>
    /\ tesseractWorker = 0
    /\ workers = 0
    /\ jobs = [j \in Jobs |-> IdleScratchJob]

\* a step of one request changes its own record and the disk only
ScratchFrame ==
    /\ pc = "scratch"
    /\ UNCHANGED <<tesseractWorker, workers, probe, env, pc, req, res, directText, imgs, idx,
                   attempt, waitSec, t, fullText, err, outcomes, posts, calls, cur, pageLog>>

\* an accepted request: const dir = tmpDir(); mkdirSync(d, {recursive: true})
\* succeeds whether or not d exists
ScratchReceive(j) ==
    /\ ScratchFrame
    /\ jobs[j].pc = "idle"
    /\ LET d == tmpDir(dir.drawn)
       IN  /\ dir' = [dir EXCEPT !.drawn = @ + 1, !.disk = @ \cup {d}]
           /\ jobs' = [jobs EXCEPT ![j] = [@ EXCEPT !.pc = "download", !.dir = d]]

\* await download(bucket, objectPath, pdf): writes dir/input.pdf, or throws
\* (no object, or the directory is gone)
ScratchDownload(j) ==
    /\ ScratchFrame
    /\ jobs[j].pc = "download"
    /\ \E found \in BOOLEAN :
          IF found /\ jobs[j].dir \in dir.disk
          THEN /\ dir' = [dir EXCEPT !.files = WriteFile(@, jobs[j].dir, "input.pdf", j)]
               /\ jobs' = [jobs EXCEPT ![j] = [@ EXCEPT !.pc = "pdftotext"]]
          ELSE /\ jobs' = [jobs EXCEPT ![j] = [@ EXCEPT !.pc = "cleanup"]]
               /\ UNCHANGED dir

\* await tryPdfToText(pdf): pdftotext reads dir/input.pdf
ScratchPdfToText(j) ==
    /\ ScratchFrame
    /\ jobs[j].pc = "pdftotext"
    /\ \E direct \in BOOLEAN :
          jobs' = [jobs EXCEPT ![j] =
                     [@ EXCEPT !.pc = IF direct THEN "cleanup" ELSE "pdftoppm",
                               !.read = @ \cup WritersOf(dir.files, jobs[j].dir, "input.pdf")]]
    /\ UNCHANGED dir

\* await pdfToImages(pdf, dir, ...): pdftoppm reads dir/input.pdf and writes
\* the page images under dir/page, or fails
ScratchPdfToImages(j) ==
    /\ ScratchFrame
    /\ jobs[j].pc = "pdftoppm"
    /\ \E exit0 \in BOOLEAN :
          IF exit0 /\ jobs[j].dir \in dir.disk
          THEN /\ dir' = [dir EXCEPT !.files = WriteFile(@, jobs[j].dir, "page-1.png", j)]
               /\ jobs' = [jobs EXCEPT ![j] =
                      [@ EXCEPT !.pc = "ocr",
                                !.read = @ \cup WritersOf(dir.files, jobs[j].dir, "input.pdf")]]
          ELSE /\ jobs' = [jobs EXCEPT ![j] = [@ EXCEPT !.pc = "cleanup"]]
               /\ UNCHANGED dir

\* the page loop: geminiOCR and tesseractOCR read the page images
ScratchOcr(j) ==
    /\ ScratchFrame
    /\ jobs[j].pc = "ocr"
    /\ jobs' = [jobs EXCEPT ![j] =
                  [@ EXCEPT !.pc = "cleanup",
                            !.read = @ \cup WritersOf(dir.files, jobs[j].dir, "page-1.png")]]
    /\ UNCHANGED dir

\* finally { await fsp.rm(dir, {recursive: true, force: true}).catch(() => {}) }
ScratchCleanup(j) ==
    /\ ScratchFrame
    /\ jobs[j].pc = "cleanup"
    /\ dir' = [dir EXCEPT !.disk = @ \ {jobs[j].dir},
                          !.files = {f \in @ : f.d # jobs[j].dir}]
    /\ jobs' = [jobs EXCEPT ![j] = [@ EXCEPT !.pc = "done"]]

ScratchNext ==
    \/ \E j \in Jobs : ScratchReceive(j)
    \/ \E j \in Jobs : ScratchDownload(j)
    \/ \E j \in Jobs : ScratchPdfToText(j)
    \/ \E j \in Jobs : ScratchPdfToImages(j)
    \/ \E j \in Jobs : ScratchOcr(j)
    \/ \E j \in Jobs : ScratchCleanup(j)

SpecScratch == ScratchInit /\ [][ScratchNext]_vars

----------------------------------------------------------------------------
(* Properties *)

\* the request passed the boundary checks and was acknowledged
Accepted == res # <<>> /\ res[1].status = 200

\* the handler has run to its end
Done == pc = "done"

\* C1: every outcome reported as succeeded (a payload with ok = true handed to
\* callback, and every body with ok = true that is POSTed) carries text that is
\* non-empty after trimming whitespace, on the direct-text and the OCR path.
C1_SucceededHasText ==
    /\ \A i \in 1..Len(outcomes) :
          outcomes[i].ok => Truthy(outcomes[i].text) /\ trim(outcomes[i].text) # <<>>
    /\ \A i \in 1..Len(posts) :
          posts[i].body.ok => Truthy(posts[i].body.text) /\ trim(posts[i].body.text) # <<>>

\* an OCR success of two pages has been posted, its text cut to the cap
C1_Witness ==
    /\ Done
    /\ Len(posts) = 1
    /\ posts[1].body.ok
    /\ posts[1].body.engine = "gemini+tesseract"
    /\ posts[1].body.pages = <<2>>
    /\ posts[1].body.truncated

\* C2: once the handler of a job that created a scratch directory has run to
\* its end, the directory no longer exists, whichever path the job took.
C2_ScratchRemoved ==
    Done /\ dir # "none" => dir = "removed"

\* a job that failed after rasterization (no page gave text) has ended and its
\* scratch directory is gone
C2_Witness ==
    /\ Done
    /\ dir = "removed"
    /\ err = "OCR generated no text"
    /\ Len(pageLog) = 2

\* C3: an accepted job with a callback URL configured issues exactly one
\* notification POST: none is repeated, a success and a failure are never both
\* sent, and at the end of the handler one has been sent.
C3_ExactlyOnePost ==
    /\ Len(posts) <= 1
    /\ Len(outcomes) <= 1
    /\ Done /\ Accepted /\ env.OCR_CALLBACK_URL # "" => Len(posts) = 1
    /\ \A i \in 1..Len(posts) : posts[i].body = SafePayload(outcomes[1])

\* a job whose only POST met a timeout or a connection error has ended
C3_Witness ==
    /\ Done
    /\ Accepted
    /\ Len(posts) = 1
    /\ posts[1].result = "exception"
    /\ posts[1].body.ok

\* C4: for every accepted job the inbound caller receives the job's outcome,
\* in an HTTP response or through a notification POST, in every configuration
\* (also without a callback URL).
C4_CallerReceivesOutcome ==
    Done /\ Accepted =>
        \/ \E i \in 1..Len(res) : res[i].body = "outcome"
        \/ posts # <<>>

\* the handler is inside the page loop, between two awaits of one page
InLoop == pc \in {"gemini", "sleep", "tesseract", "pageDone"}

\* the handler has left the page loop of a rasterized document
AfterLoop == imgs # <<>> /\ pc \in {"callbackOk", "cleanup", "callbackFail", "done"}

\* the finished pages for which tesseractOCR was called
LocalPages == {i \in 1..Len(pageLog) : pageLog[i].engine # "gemini"}

\* C5: the page loop attempts the pages in order and leaves none out: whatever
\* the engines did on the pages before, page k+1 is attempted after page k, and
\* the loop is left only when every rasterized page has been attempted.
C5_AllPagesAttempted ==
    /\ \A i \in 1..Len(pageLog) : pageLog[i].page = imgs[i]
    /\ InLoop => /\ idx \in 1..Len(imgs)
                 /\ cur.page = imgs[idx]
                 /\ Len(pageLog) = idx - 1
                 /\ calls.geminiOCR = idx
    /\ AfterLoop => Len(pageLog) = Len(imgs) /\ calls.geminiOCR = Len(imgs)

\* page 1 got text from neither engine and page 2 is being attempted
C5_Witness ==
    /\ pc = "gemini"
    /\ idx = 2
    /\ cur.page = imgs[2]
    /\ pageLog[1].engine = "none"

\* C6: on the OCR path the job succeeds iff at least one page yielded usable
\* text, and fails, with "OCR generated no text", iff no page did; a page
\* without text never fails the job by itself.
C6_OcrOutcome ==
    AfterLoop =>
        LET yielded == \E i \in 1..Len(pageLog) : Truthy(pageLog[i].text)
        IN  /\ yielded <=> err = NoErr
            /\ ~yielded <=> err = "OCR generated no text"
            /\ \A i \in 1..Len(outcomes) :
                  /\ outcomes[i].ok <=> yielded
                  /\ ~outcomes[i].ok => outcomes[i].error = "OCR generated no text"
            /\ Done => Len(outcomes) = 1

\* a job has succeeded although one of its two pages gave no text
C6_Witness ==
    /\ Done
    /\ Len(pageLog) = 2
    /\ pageLog[2].engine = "none"
    /\ outcomes[1].ok

\* C7: after rate-limit errors on attempts 1 and 2 a third attempt is made, and
\* when it answers with usable text geminiOCR returns that text at attempt 3
\* after two waits, and tesseractOCR is not called for the page.
C7_ThirdAttemptText ==
    /\ cur.remote = <<"rateLimit", "rateLimit">> =>
          pc \in {"sleep", "gemini"} /\ ~cur.localCalled
    /\ cur.remote = <<"rateLimit", "rateLimit", "text">> /\ Truthy(cur.remoteText) =>
          /\ pc = "pageDone"
          /\ t = cur.remoteText
          /\ attempt = 3
          /\ cur.waits = 2
          /\ ~cur.localCalled
          /\ calls.tesseractOCR = Cardinality(LocalPages)

\* geminiOCR has returned the text of its third attempt
C7_Witness ==
    /\ pc = "pageDone"
    /\ cur.remote = <<"rateLimit", "rateLimit", "text">>
    /\ Truthy(t)

\* C8: after rate-limit errors on all 3 attempts geminiOCR returns null without
\* an exception reaching the handler, tesseractOCR is called for the same page,
\* and the job has not failed.
C8_ExhaustionFallsBack ==
    cur.remote = <<"rateLimit", "rateLimit", "rateLimit">> =>
        /\ cur.remoteText = Null
        /\ err = NoErr
        /\ outcomes = <<>>
        /\ cur.page = imgs[idx]
        /\ pc \in {"tesseract", "pageDone"}
        /\ calls.tesseractOCR = Cardinality(LocalPages) + 1
        /\ pc = "pageDone" => cur.localCalled /\ t = cur.localText

\* tesseractOCR has given text for a page on which Gemini was rate-limited
\* three times
C8_Witness ==
    /\ pc = "pageDone"
    /\ cur.remote = <<"rateLimit", "rateLimit", "rateLimit">>
    /\ cur.localCalled
    /\ Truthy(t)

\* C9: an attempt that fails with an error that is no rate-limit signal is the
\* page's last remote attempt, whichever attempt it was; no wait follows it and
\* the page goes on to tesseractOCR.
C9_OtherErrorNotRetried ==
    \A i \in 1..Len(cur.remote) :
        cur.remote[i] = "error" =>
            /\ i = Len(cur.remote)
            /\ attempt = i
            /\ cur.waits = i - 1
            /\ waitSec = 0
            /\ cur.remoteText = Null
            /\ err = NoErr
            /\ pc \in {"tesseract", "pageDone"}
            /\ calls.tesseractOCR = Cardinality(LocalPages) + 1
            /\ pc = "pageDone" => cur.localCalled

\* a page whose second attempt failed with another error is at tesseractOCR
C9_Witness ==
    /\ pc = "tesseract"
    /\ cur.remote = <<"rateLimit", "error">>

\* C10: when tryPdfToText accepts the text layer the job succeeds with engine
\* pdftotext, pages null and the extracted text, and pdfToImages, geminiOCR and
\* tesseractOCR are never called.
C10_DirectTextOnly ==
    Truthy(directText) =>
        /\ calls.pdfToImages = 0 /\ calls.geminiOCR = 0 /\ calls.tesseractOCR = 0
        /\ imgs = <<>> /\ pageLog = <<>> /\ cur = NoPage
        /\ err = NoErr
        /\ pc \in {"callbackOk", "cleanup", "done"}
        /\ Len(outcomes) = 1
        /\ outcomes[1].ok
        /\ outcomes[1].engine = "pdftotext"
        /\ outcomes[1].pages = NullPages
        /\ outcomes[1].text = directText
        /\ \A i \in 1..Len(posts) :
              /\ posts[i].body.ok
              /\ posts[i].body.engine = "pdftotext"
              /\ posts[i].body.pages = NullPages
              /\ posts[i].body.text = slice(directText, env.MAX_CALLBACK_TEXT_CHARS)

\* a direct-text job has ended and its text was posted whole
C10_Witness ==
    /\ Done
    /\ Truthy(directText)
    /\ Len(posts) = 1
    /\ posts[1].body.text = directText

\* the finished pages whose accepted text came from geminiOCR / tesseractOCR
RemoteTextPages == {i \in 1..Len(pageLog) : pageLog[i].engine = "gemini"}
LocalTextPages == {i \in 1..Len(pageLog) : pageLog[i].engine = "tesseract"}

\* C11: a job that succeeds through OCR reports the engine "gemini" when every
\* page with accepted text took it from geminiOCR, "tesseract" when every such
\* page took it from tesseractOCR, and the mixed tag "gemini+tesseract" only
\* when at least one page used each engine.
C11_MethodTag ==
    AfterLoop =>
        \A i \in 1..Len(outcomes) :
            outcomes[i].ok =>
                /\ LocalTextPages = {} => outcomes[i].engine = "gemini"
                /\ RemoteTextPages = {} => outcomes[i].engine = "tesseract"
                /\ outcomes[i].engine = "gemini+tesseract" =>
                      RemoteTextPages # {} /\ LocalTextPages # {}

\* C12: without GEMINI_API_KEY the service still accepts jobs, geminiOCR gives
\* no page its text, every page of a scanned document goes to tesseractOCR,
\* and a job whose pages Tesseract reads succeeds with the local engine's tag.
C12_LocalOnlyWithoutCredentials ==
    env.GEMINI_API_KEY = "" =>
        /\ pc # "crashed"
        /\ RemoteTextPages = {}
        /\ AfterLoop => LocalPages = 1..Len(imgs)
        /\ AfterLoop /\ LocalTextPages = 1..Len(imgs) =>
              Len(outcomes) = 1 /\ outcomes[1].ok /\ outcomes[1].engine = "tesseract"

\* pdfToImages has thrown: rasterization gave the job no page image
NoImages == calls.pdfToImages = 1 /\ imgs = <<>>

\* C13: when rasterization produces no page image the job fails with a reason
\* that names rasterization, neither OCR engine is called, and a failure
\* notification (ok: false) is sent.
C13_ZeroImagesFails ==
    NoImages =>
        /\ err \in {"No images generated", "pdftoppm failed"}
        /\ calls.geminiOCR = 0 /\ calls.tesseractOCR = 0
        /\ \A i \in 1..Len(outcomes) : ~outcomes[i].ok /\ outcomes[i].error = err
        /\ Done => /\ Len(posts) = 1
                   /\ ~posts[1].body.ok
                   /\ posts[1].body.error = err

\* C14: when the download fails the job fails and hands a failure outcome to
\* callback(), which posts it to the configured URL; the download is not
\* tried again, and tryPdfToText, pdfToImages, geminiOCR and tesseractOCR are
\* never called for the job.
C14_RetrievalFailureIsFatal ==
    /\ calls.download <= 1
    /\ err = "download failed" =>
          /\ calls = [NoCalls EXCEPT !.download = 1]
          /\ directText = Null /\ imgs = <<>> /\ pageLog = <<>> /\ cur = NoPage
          /\ pc \in {"cleanup", "callbackFail", "done"}
          /\ pc # "cleanup" => outcomes = <<FailurePayload(req.documentId, err)>>
          /\ Done =>
                IF env.OCR_CALLBACK_URL = ""
                THEN posts = <<>>
                ELSE /\ Len(posts) = 1
                     /\ ~posts[1].body.ok
                     /\ posts[1].body.error = err

\* a job whose download failed has ended and its failure was posted
C14_Witness ==
    /\ Done
    /\ err = "download failed"
    /\ calls.download = 1
    /\ Len(posts) = 1
    /\ ~posts[1].body.ok

\* C15: for every stdout of pdftotext and every MIN_PDFTEXT_LEN, a text that
\* tryPdfToText returns has at least MIN_PDFTEXT_LEN characters, and a text
\* layer whose whitespace-normalized length is below MIN_PDFTEXT_LEN is
\* rejected (null is returned).
C15_MinimumLength ==
    probe.fn = "tryPdfToText" =>
        /\ probe.ret # Null => Len(probe.ret) >= env.MIN_PDFTEXT_LEN
        /\ normalizedLen(trim(probe.arg.stdout)) < env.MIN_PDFTEXT_LEN => probe.ret = Null

\* a text layer of four characters was accepted at a minimum of three, its
\* normalized length
C15_Witness ==
    /\ probe.fn = "tryPdfToText"
    /\ env.MIN_PDFTEXT_LEN = 3
    /\ probe.arg.stdout = <<"x", " ", " ", "x">>
    /\ probe.ret = probe.arg.stdout

\* the part of a text that looksCorrupted inspects
SampleOf(text) == slice(text, SampleLen)

\* how many characters of s belong to the class S
Count(s, S) == Cardinality({i \in 1..Len(s) : s[i] \in S})

\* no run of n or more of one and the same symbol
NoRun(s, n) == \A c \in {"@", "%", "#", "FFFD"} : ~HasRun(s, c, n)

Blank(text) == text = Null \/ trim(text) = <<>>

\* at least 5 % of the characters of s belong to the class S
AtLeast5Pct(s, S) == Len(s) > 0 /\ Count(s, S) * 100 >= 5 * Len(s)

\* C17: every sample that is empty, whitespace-only, or of which at
\* least 5 % are replacement or control characters is classified corrupted.
C17_GarbledIsCorrupted ==
    /\ probe.fn = "looksCorrupted"
    /\ \/ Blank(probe.arg)
       \/ Blank(SampleOf(probe.arg))
       \/ AtLeast5Pct(SampleOf(probe.arg), {"FFFD", "ctl", "del"})
    => probe.ret = TRUE

\* C18: for every positive requested page count r, ceiling c = MAX_PDF_PAGES
\* and document of p pages, pdfToImages returns exactly min(r, c) images when
\* p >= min(r, c) and exactly p images when p is smaller, and never more than c.
C18_PageCount ==
    probe.fn = "pdfToImages" =>
        LET r == probe.arg.pages
            c == env.MAX_PDF_PAGES
            p == probe.arg.docPages
            n == Len(probe.ret.imgs)
        IN  /\ n = IF p >= Min(r, c) THEN Min(r, c) ELSE p
            /\ n <= c

\* C19: the text that callback() transmits is the prefix of the outcome's text
\* of length min(len, MAX_CALLBACK_TEXT_CHARS), so never longer than the cap;
\* truncated is true exactly when the outcome's text is longer than the cap;
\* and the POST is issued however long the text is.
C19_TruncatedNeverRejected ==
    /\ \A i \in 1..Len(posts) :
          LET o == outcomes[1]
              M == env.MAX_CALLBACK_TEXT_CHARS
              sent == posts[i].body
          IN  o.text # Null =>
                 /\ sent.text = SubSeq(o.text, 1, Min(Len(o.text), M))
                 /\ Len(sent.text) <= M
                 /\ sent.truncated <=> Len(o.text) > M
    /\ Done /\ Accepted /\ env.OCR_CALLBACK_URL # "" => Len(posts) = 1

\* a success whose text is longer than the cap was posted cut and flagged
C19_Witness ==
    /\ Done
    /\ Len(posts) = 1
    /\ posts[1].body.ok
    /\ posts[1].body.truncated
    /\ Len(posts[1].body.text) = env.MAX_CALLBACK_TEXT_CHARS
    /\ Len(outcomes[1].text) > env.MAX_CALLBACK_TEXT_CHARS

\* the notification of a successful extraction has failed in the synchronous
\* handler: rejected URL, status that is not 2xx, timeout or connection error
SyncNotifyFailed == err \in NotifyErrors

\* C20: in the synchronous /ocr handler a failed notification of a successful
\* extraction is only logged: the HTTP caller still gets the success response,
\* no failure outcome is made of the job, and no second notification is sent.
C20_NotificationFailureOnlyLogged ==
    SyncNotifyFailed /\ pc = "s_done" =>
        /\ Len(res) = 1 /\ res[1].status = 200 /\ res[1].ok
        /\ \A i \in 1..Len(outcomes) : outcomes[i].ok
        /\ Len(posts) <= 1

\* C21: over any interleaving of the requests in flight, createWorker() makes
\* at most one Tesseract worker, and every page that is recognized locally is
\* recognized by that one worker.
C21_OneWorker ==
    /\ workers <= 1
    /\ \A j \in DOMAIN jobs :
          jobs[j].pc = "recognize" => jobs[j].worker = 1

\* C22: a request whose x-worker-secret header is missing or differs from the
\* configured secret is answered 401 and nothing else happens: no download,
\* no engine call, no notification, whether or not a secret is configured.
C22_BadSecretStartsNothing ==
    /\ pc # "p_idle"
    /\ (req.header = Undefined \/ req.header # env.OCR_WORKER_SECRET)
    => /\ pc = "p_done"
       /\ Len(res) = 1 /\ res[1].status = 401
       /\ calls = NoCalls
       /\ posts = <<>>

\* C23: an authorized request that lacks documentId, bucket or objectPath is
\* answered 400 and starts no job (no scratch directory, no download, no
\* notification); a request with a bad secret is answered 401 even when
\* fields are missing too.
C23_MissingFieldsRejected ==
    \A j \in DOMAIN jobs :
        jobs[j].pc # "idle" =>
            IF ~jobs[j].secret
            THEN jobs[j].status = 401
            ELSE jobs[j].documentId = Undefined \/ ~jobs[j].locator =>
                    /\ jobs[j].status = 400
                    /\ jobs[j].pc = "done"
                    /\ ~jobs[j].dir
                    /\ jobs[j].downloads = 0
                    /\ jobs[j].notified = "none"

\* C24: every accepted job eventually reaches a terminal state, with exactly
\* one outcome (succeeded or failed) handed to the notifier; neither the retry
\* waits nor the page loop keep it running forever.
C24_JobTerminates ==
    Accepted ~> (Done /\ Len(outcomes) = 1)

\* an accepted job that waited after a rate limit and went through more than
\* one page has reached its terminal state
C24_Witness ==
    /\ Accepted /\ Done /\ Len(outcomes) = 1
    /\ Len(pageLog) >= 2
    /\ calls.geminiOCR >= 2

\* the attempts of the current page that ended in a rate-limit error and were
\* not the third
RetriedAttempts == {i \in 1..Len(cur.remote) : i < 3 /\ cur.remote[i] = "rateLimit"}

\* C25: on every page geminiOCR makes at least 1 and at most 3 attempts and
\* waits at most twice; each wait follows a rate-limit error on attempt 1 or 2,
\* and no wait follows the third attempt.
C25_AttemptsAndWaits ==
    InLoop =>
        /\ attempt \in 1..3
        /\ Len(cur.remote) <= 3
        /\ pc \in {"tesseract", "pageDone"} => Len(cur.remote) >= 1
        /\ cur.waits <= 2
        /\ cur.waits = Cardinality(RetriedAttempts)
        /\ pc = "sleep" =>
              /\ Len(cur.remote) \in {1, 2}
              /\ attempt = Len(cur.remote)
              /\ cur.remote[Len(cur.remote)] = "rateLimit"
        /\ pc # "sleep" => waitSec = 0

\* the third attempt of a page has failed with a rate-limit error after two
\* waits, and the page has gone on without a third wait
C25_Witness ==
    /\ pc = "tesseract"
    /\ Len(cur.remote) = 3
    /\ cur.remote[3] = "rateLimit"
    /\ cur.waits = 2
    /\ waitSec = 0

NonEmptyPages == SelectSeq(pageLog, LAMBDA v : v # <<>>)

\* C27: the final OCR text is the non-empty page texts in page order, joined
\* with exactly one blank-line separator and trimmed; a page that contributed
\* nothing adds neither text nor a separator.
C27_JoinedPages ==
    pc \in {"s_notify", "s_respond", "s_done"} /\ err = NoErr /\ imgs # <<>> =>
        fullText = trim(JoinPages(NonEmptyPages))

\* C28: while FORCE_OCR is set, tryPdfToText returns null for every text
\* layer, no outcome carries the engine pdftotext, and every job whose text
\* layer was examined goes on to pdfToImages.
C28_ForceOcr ==
    env.FORCE_OCR =>
        /\ directText = Null
        /\ \A i \in 1..Len(outcomes) : outcomes[i].engine # "pdftotext"
        /\ calls.tryPdfToText = 1 => pc = "pdftoppm" \/ calls.pdfToImages = 1

\* with FORCE_OCR set a job has gone past tryPdfToText into the page loop
C28_Witness ==
    /\ env.FORCE_OCR
    /\ calls.tryPdfToText = 1
    /\ calls.pdfToImages = 1
    /\ directText = Null
    /\ InLoop

\* C29: for a request whose language hint is Arabic, the text layer is
\* rejected whatever it looks like while FORCE_OCR_FOR_AR is on; while it is
\* off, a text layer that passes the length, FORCE_OCR and corruption tests is
\* accepted, hint or no hint.
C29_ArabicHintForcesOcr ==
    probe.fn = "directText" /\ probe.arg.languageHint = "ar" =>
        IF env.FORCE_OCR_FOR_AR
        THEN probe.ret = Null
        ELSE LET text == trim(probe.arg.stdout)
             IN  /\ normalizedLen(text) >= env.MIN_PDFTEXT_LEN
                 /\ ~env.FORCE_OCR
                 /\ ~looksCorrupted(text)
                 => probe.ret = text

\* C30: every sample that contains a run of 8 or more copies of one of the
\* symbols U+FFFD, '%', '#' and '@' is classified corrupted, also when these
\* symbols make up less than 3 % of the sample.
C30_LongRunIsCorrupted ==
    /\ probe.fn = "looksCorrupted"
    /\ probe.arg # Null
    /\ \E c \in {"FFFD", "%", "#", "@"} : HasRun(SampleOf(probe.arg), c, 8)
    => probe.ret = TRUE

\* a step in which the page loop turns to another page
NextPageStep == idx' # idx

\* C31: the pages of a job are taken one at a time in increasing page order:
\* geminiOCR is started for the next page only when the page before has been
\* finished (its attempts and waits are over and tesseractOCR, if called, has
\* returned), and tesseractOCR is started only for the page whose geminiOCR
\* call has just returned.
C31_OnePageAtATime ==
    [][ /\ NextPageStep =>
              /\ idx' = idx + 1
              /\ pc' = "gemini"
              /\ cur'.page = imgs'[idx']
              /\ cur'.remote = <<>> /\ ~cur'.localCalled
              /\ calls'.geminiOCR = calls.geminiOCR + 1
              /\ calls'.tesseractOCR = calls.tesseractOCR
              /\ idx = 0 => pc = "pdftoppm"
              /\ idx > 0 =>
                    /\ pc = "pageDone"
                    /\ waitSec = 0
                    /\ Len(cur.remote) >= 1
                    /\ Truthy(cur.remoteText) \/ cur.localCalled
                    /\ cur'.page > cur.page
                    /\ Len(pageLog') = idx
        /\ calls'.geminiOCR # calls.geminiOCR => NextPageStep
        /\ calls'.tesseractOCR # calls.tesseractOCR =>
              /\ pc = "gemini" /\ pc' = "tesseract"
              /\ cur'.page = cur.page
              /\ idx' = idx
    ]_vars

\* the second page is at its first attempt after the first page went on to
\* tesseractOCR and took its text from there
C31_Witness ==
    /\ pc = "gemini"
    /\ idx = 2
    /\ cur.remote = <<>>
    /\ Len(pageLog) = 1
    /\ pageLog[1].engine = "tesseract"
    /\ cur.page > pageLog[1].page

\* geminiOCR has returned for the current page
RemoteReturned == pc \in {"tesseract", "pageDone"}

\* C32: on every page geminiOCR is called first, and tesseractOCR is called
\* for the page exactly when geminiOCR returned no usable text (empty or
\* corrupted text, an error, or the attempts used up); usable text from
\* geminiOCR is the page's text and tesseractOCR is not called for that page.
C32_LocalIffRemoteUnusable ==
    /\ InLoop /\ ~RemoteReturned => ~cur.localCalled /\ cur.remoteText = Null
    /\ RemoteReturned =>
          /\ Len(cur.remote) >= 1
          /\ (pc = "tesseract" \/ cur.localCalled) <=> ~Truthy(cur.remoteText)
          /\ pc = "pageDone" /\ Truthy(cur.remoteText) => t = cur.remoteText
          /\ pc = "pageDone" /\ ~Truthy(cur.remoteText) => t = cur.localText
    /\ \A i \in 1..Len(pageLog) :
          pageLog[i].engine = "gemini" => Truthy(pageLog[i].text)
    /\ calls.tesseractOCR =
          Cardinality(LocalPages)
          + (IF RemoteReturned /\ ~Truthy(cur.remoteText) THEN 1 ELSE 0)

\* a job took the text of its first page from geminiOCR without calling
\* tesseractOCR and is at tesseractOCR for its second page
C32_Witness ==
    /\ pc = "tesseract"
    /\ idx = 2
    /\ pageLog[1].engine = "gemini"
    /\ calls.tesseractOCR = 1
    /\ cur.remote = <<"text">>

\* a text an engine's result may be taken for: not empty and not corrupted
Usable(v) == v # Null /\ trim(v) # <<>> /\ ~looksCorrupted(v)

\* C33: every page text that enters fullText, from geminiOCR or tesseractOCR,
\* is non-empty and passes looksCorrupted; a corrupted answer of Gemini raises
\* no error and is not accepted, the page goes on to tesseractOCR, and what
\* tesseractOCR returns is either null or passes looksCorrupted too.
C33_OnlyCleanTextAccepted ==
    /\ \A i \in 1..Len(pageLog) :
          pageLog[i].text # Null => Usable(pageLog[i].text)
    /\ InLoop =>
          /\ t # Null => Usable(t)
          /\ cur.remoteText # Null => Usable(cur.remoteText)
          /\ cur.localText # Null => Usable(cur.localText)
          /\ Len(cur.remote) >= 1 /\ cur.remote[Len(cur.remote)] = "corrupted" =>
                /\ cur.remoteText = Null
                /\ err = NoErr
                /\ outcomes = <<>>
                /\ pc \in {"tesseract", "pageDone"}
                /\ pc = "pageDone" => cur.localCalled /\ t = cur.localText

\* Gemini answered with corrupted text, tesseractOCR was called for the page
\* and its text was taken
C33_Witness ==
    /\ pc = "pageDone"
    /\ cur.remote = <<"corrupted">>
    /\ cur.localCalled
    /\ Truthy(t)

\* C34: an attempt of the remote engine is over after a bounded wait, whether
\* or not the provider answers: a call that never returns is abandoned, and
\* the page goes on (to the local engine) instead of the job hanging.
C34_AttemptIsBounded ==
    (pc = "gemini") ~> (pc # "gemini")

\* C35: of the requests that share a Tesseract worker, at most one has a
\* recognize call into that worker in flight at any moment.
C35_RecognizeSerialized ==
    \A j1, j2 \in DOMAIN jobs :
        /\ j1 # j2
        /\ jobs[j1].pc = "recognize"
        /\ jobs[j2].pc = "recognize"
        => jobs[j1].worker # jobs[j2].worker

\* C36: the page images pdfToImages returns are the pages 1..N with no gap;
\* when the image of a page before the last one found is missing, pdfToImages
\* throws instead of returning the list without it.
C36_ContiguousPages ==
    probe.fn = "pdfToImages" /\ ~probe.ret.threw =>
        \A i \in 1..Len(probe.ret.imgs) : probe.ret.imgs[i] = i

\* a request that holds a scratch directory
Running(j) == jobs[j].pc \notin {"idle", "done"}

\* C37: with several requests in flight, every request's scratch directory
\* is its own: no two running requests have the same directory, every file
\* in it was written by the request itself, the request reads only files it
\* wrote, and its directory and files are there until its own cleanup.
C37_ScratchIsPrivate ==
    \A j \in DOMAIN jobs :
        /\ jobs[j].read \subseteq {j}
        /\ Running(j) =>
              /\ jobs[j].dir \in dir.disk
              /\ \A k \in DOMAIN jobs : k # j /\ Running(k) => jobs[k].dir # jobs[j].dir
              /\ \A f \in dir.files : f.d = jobs[j].dir => f.by = j
              /\ jobs[j].pc \in {"pdftotext", "pdftoppm", "ocr"} =>
                    WritersOf(dir.files, jobs[j].dir, "input.pdf") = {j}
              /\ jobs[j].pc = "ocr" =>
                    WritersOf(dir.files, jobs[j].dir, "page-1.png") = {j}

\* one request has removed its directory while another one, which has read
\* its own input.pdf, still has its page images
C37_Witness ==
    \E j, k \in DOMAIN jobs :
        /\ jobs[j].pc = "done" /\ jobs[j].read = {j}
        /\ jobs[k].pc = "ocr" /\ jobs[k].read = {k}
        /\ jobs[j].dir \notin dir.disk
        /\ WritersOf(dir.files, jobs[k].dir, "page-1.png") = {k}

\* C38: a failure notification is handed to callback(), and POSTed, only
\* after the job's scratch directory has been removed, whether the job failed
\* in the download, in pdftoppm or with no text from any page.
C38_CleanupBeforeFailureNotice ==
    /\ pc = "callbackFail" => dir = "removed"
    /\ \A i \in 1..Len(outcomes) : ~outcomes[i].ok => dir = "removed"
    /\ \A i \in 1..Len(posts) : ~posts[i].body.ok => dir = "removed"

\* the failure of a job whose PDF gave no page image has been POSTed, and the
\* scratch directory is gone
C38_Witness ==
    /\ Len(posts) = 1
    /\ ~posts[1].body.ok
    /\ posts[1].body.error = "No images generated"
    /\ dir = "removed"

\* C39: every request to /ocr gets exactly one HTTP response, 401, 400 or the
\* acknowledgement; the acknowledgement of an accepted request is written
\* before the download starts, and nothing the job does later writes another
\* response.
C39_OneResponse ==
    /\ Len(res) <= 1
    /\ pc \notin {"idle", "crashed"} =>
          /\ Len(res) = 1
          /\ res[1].status \in {401, 400, 200}
          /\ res[1].status = 200 <=> res[1].ok
    /\ pc = "download" \/ calls.download > 0 =>
          res = <<[status |-> 200, ok |-> TRUE, body |-> "Processing started"]>>
    /\ pc \notin {"idle", "crashed", "done"} => Accepted
    /\ Done /\ ~Accepted => calls = NoCalls /\ outcomes = <<>> /\ dir = "none"

\* an accepted job has failed and ended, and its acknowledgement is still the
\* only response
C39_Witness ==
    /\ Done
    /\ res = <<[status |-> 200, ok |-> TRUE, body |-> "Processing started"]>>
    /\ Len(outcomes) = 1
    /\ ~outcomes[1].ok
    /\ calls.download = 1

====
